---- MODULE Spec2Model ----
(***************************************************************************)
(* File-serving routes of the media backend (routes/files.js, kept in      *)
(* src/routes/auth.js lines 776-931) and the GridFS helper they call       *)
(* (utils/gridfs.js, kept in src/unnamed/part_010).                        *)
(*                                                                         *)
(* Strings that the code parses are sequences of one-character strings.    *)
(* JavaScript numbers are records [nan, v]: NaN compares false with        *)
(* everything, as in the language.                                         *)
(***************************************************************************)
EXTENDS Integers, Sequences, FiniteSets, TLC

\* ------------------------------------------------------------------ bounds
\* Longest stored object, in bytes.
MaxLen == 4
\* Chunk size of the bucket (255 KB in the driver; scaled down).
ChunkSize == 2
\* How many uploads (ids made by the driver) a behaviour holds.
MaxUploads == 2

\* --------------------------------------------------------- JavaScript values
NaN == [nan |-> TRUE, v |-> 0]
Num(n) == [nan |-> FALSE, v |-> n]

\* a >= b, a > b on JavaScript numbers: false when either side is NaN
JsGE(a, b) == ~a.nan /\ ~b.nan /\ a.v >= b.v
JsGT(a, b) == ~a.nan /\ ~b.nan /\ a.v > b.v
JsAdd(a, b) == IF a.nan \/ b.nan THEN NaN ELSE Num(a.v + b.v)
JsSub(a, b) == IF a.nan \/ b.nan THEN NaN ELSE Num(a.v - b.v)

Digits == <<"0", "1", "2", "3", "4", "5", "6", "7", "8", "9">>
IsDigit(c) == \E i \in 1..10 : Digits[i] = c
DigitVal(c) == (CHOOSE i \in 1..10 : Digits[i] = c) - 1

\* String(n) for a non-negative integer below 100
ToStr(n) == IF n < 10 THEN <<Digits[n + 1]>>
            ELSE <<Digits[(n \div 10) + 1], Digits[(n % 10) + 1]>>

\* value of the longest prefix of digits of s, given the value acc read so far
RECURSIVE DigitPrefix(_, _)
DigitPrefix(s, acc) ==
  IF s = <<>> \/ ~IsDigit(Head(s)) THEN acc
  ELSE DigitPrefix(Tail(s), 10 * acc + DigitVal(Head(s)))

RECURSIVE TrimLeft(_)
TrimLeft(s) == IF s # <<>> /\ Head(s) = " " THEN TrimLeft(Tail(s)) ELSE s

\* parseInt(s, 10): leading blanks, an optional sign, then digits; NaN when
\* no digit follows
parseInt(s) ==
  LET t == TrimLeft(s)
      neg == t # <<>> /\ Head(t) = "-"
      u == IF t # <<>> /\ Head(t) \in {"-", "+"} THEN Tail(t) ELSE t
  IN  IF u = <<>> \/ ~IsDigit(Head(u)) THEN NaN
      ELSE Num(IF neg THEN 0 - DigitPrefix(u, 0) ELSE DigitPrefix(u, 0))

IsPrefix(p, s) == Len(p) <= Len(s) /\ SubSeq(s, 1, Len(p)) = p

\* s.replace(/pat/, ''): the first occurrence of pat removed
RECURSIVE ReplaceFirst(_, _)
ReplaceFirst(s, pat) ==
  IF Len(s) < Len(pat) THEN s
  ELSE IF IsPrefix(pat, s) THEN SubSeq(s, Len(pat) + 1, Len(s))
  ELSE <<Head(s)>> \o ReplaceFirst(Tail(s), pat)

\* s.split(sep) for a one-character separator
RECURSIVE Split(_, _)
Split(s, sep) ==
  IF \A i \in 1..Len(s) : s[i] # sep THEN <<s>>
  ELSE LET k == CHOOSE i \in 1..Len(s) : s[i] = sep /\ \A j \in 1..(i - 1) : s[j] # sep
       IN  <<SubSeq(s, 1, k - 1)>> \o Split(SubSeq(s, k + 1, Len(s)), sep)

BytesEq == <<"b", "y", "t", "e", "s", "=">>


\* String(x) of a JavaScript number, as a template literal renders it
JsStr(a) == IF a.nan THEN <<"N", "a", "N">>
            ELSE IF a.v < 0 THEN <<"-">> \o ToStr(0 - a.v) ELSE ToStr(a.v)

\* ------------------------------------------------------------ identifiers
\* An id's shape is all that ObjectId.isValid and new ObjectId look at.
Id(shape, key) == [shape |-> shape, key |-> key]
StoredId == Id("hex24", 1)
MalformedId == Id("other", 1)
RequestIds == {StoredId, MalformedId}
\* the ids the driver makes for uploads, new ObjectId() each: never one twice
UploadId(k) == Id("hex24", 1 + k)
UploadIds == {UploadId(k) : k \in 1..MaxUploads}
FileIds == {StoredId} \cup UploadIds

\* ObjectId.isValid(fileId): 24 hex characters or a 12-byte string
ObjectIdIsValid(id) == id.shape \in {"hex24", "str12"}

\* ---------------------------------------------------------- the bucket
MimeType(major, minor) == [major |-> major, minor |-> minor]
NoContentType == MimeType("", "")
OctetStream == MimeType("application", "octet-stream")
JsonType == MimeType("application", "json")
ContentTypes == {MimeType("video", "mp4"), MimeType("audio", "mpeg"),
                 MimeType("image", "png"), NoContentType}

\* contentType.startsWith('audio/') || contentType.startsWith('video/')
IsMedia(ct) == ct.major = "audio" \/ ct.major = "video"

\* The bytes of a blob of length L; every offset holds a different byte.
Blob(L) == [i \in 1..L |-> 16 * L + i]

RECURSIVE ChunksOf(_)
\* the chunk documents a blob is stored as: ChunkSize bytes each, the last shorter
ChunksOf(b) == IF Len(b) <= ChunkSize THEN (IF b = <<>> THEN <<>> ELSE <<b>>)
               ELSE <<SubSeq(b, 1, ChunkSize)>> \o ChunksOf(SubSeq(b, ChunkSize + 1, Len(b)))

FileDoc(L, ct) == [exists |-> TRUE, length |-> L, contentType |-> ct, chunks |-> ChunksOf(Blob(L))]
NoFile == [exists |-> FALSE, length |-> 0, contentType |-> NoContentType, chunks |-> <<>>]

RECURSIVE Flatten(_)
Flatten(cs) == IF cs = <<>> THEN <<>> ELSE Head(cs) \o Flatten(Tail(cs))

\* the bytes at offsets from..to-1 of a stored file, read from its chunk documents
StoredBytes(doc, from, to) == SubSeq(Flatten(doc.chunks), from + 1, to)

\* ------------------------------------------------------------- requests
NoRange == <<>>
RangeTokens == {<<>>, <<"x">>} \cup {ToStr(n) : n \in 0..(MaxLen + 1)}
RangeHeader(s, e) == BytesEq \o s \o <<"-">> \o e
RangeHeaders == {NoRange} \cup {RangeHeader(s, e) : s \in RangeTokens, e \in RangeTokens}

\* The handler invocations that can be in flight at once, and the one that runs
\* where requests come one after the other.
Reqs == {"r1", "r2"}
Solo == {"r1"}
NoRequest == [method |-> "", fileId |-> StoredId, range |-> NoRange]

CacheHead == "public, max-age=31536000, immutable"
CacheGet == "public, max-age=31536000, immutable, stale-while-revalidate=86400"

NoHeaders == [cacheControl |-> {}, acceptRanges |-> {}, etag |-> {}, cors |-> {},
              contentType |-> {}, contentLength |-> {}, contentRange |-> {}]
NewResponse == [statusCode |-> 200, headersSent |-> FALSE, ended |-> FALSE,
                destroyed |-> FALSE, headers |-> NoHeaders, body |-> <<>>, json |-> ""]
NoStream == [state |-> "none", piped |-> FALSE, from |-> 0, hasEnd |-> FALSE, to |-> Num(0), pos |-> 0]
NoParsedRange == [partial |-> FALSE, start |-> NaN, end |-> NaN]
NoUpload == [state |-> "idle", opened |-> FALSE, id |-> StoredId, blob |-> <<>>,
             ct |-> NoContentType, made |-> 0]
NotPut == [done |-> FALSE, blob |-> <<>>, ct |-> NoContentType]

VARIABLES
  files,    \* the bucket: id -> file document (with its chunks) or NoFile
  pc,       \* per request: where its handler stands
  req,      \* per request: method, fileId and Range header
  res,      \* per request: the response object
  stream,   \* per request: the download stream the handler opened
  calls,    \* per request: the gridfs.js helpers the handler has called
  range,    \* per request: whether the range branch was taken, and its start and end
  fault,    \* per request: whether a call of it into the store has failed
  up,       \* the uploadFile call in progress, and how many ids the driver has made
  put,      \* per id: the blob and type of the upload whose file document it holds
  gone,     \* the ids whose deleteFile has completed
  flow,     \* one streamed response: what the store has read, what waits for the client
  cmp,      \* one range request served by each way of reading a range
  client,   \* config/database.js: the module's client and db
  caller,   \* per caller of connectDB/getDB: where it stands and what it was handed
  likes,    \* the likes and dislikes collections
  toggler,  \* per like/dislike request: where its handler stands and what it found
  subs,     \* the subscriptions and payments collections
  payer,    \* per payment request: where its handler stands and what it found
  playlist, \* one playlist and the answer to the last reorder
  gate      \* one request at requireSubscription

fileVars == <<files, pc, req, res, stream, calls, range, fault, up, put, gone>>
\* the state outside the file routes and gridfs.js
rest == <<flow, cmp, client, caller, likes, toggler, subs, payer, playlist, gate>>
vars == <<fileVars, rest>>

\* the parts of the program that a behaviour does not run
Off == [state |-> "off"]

\* where a request's handling is over: no handler or listener of it runs again
Terminal == {"BadRequest", "NotFound", "NotSatisfiable", "Completed", "Aborted",
             "ServerError", "Truncated", "Deleted"}

\* no request in flight, no upload in progress
NoRequests ==
  /\ pc = [r \in Reqs |-> "Idle"]
  /\ req = [r \in Reqs |-> NoRequest]
  /\ res = [r \in Reqs |-> NewResponse]
  /\ stream = [r \in Reqs |-> NoStream]
  /\ calls = [r \in Reqs |-> {}]
  /\ range = [r \in Reqs |-> NoParsedRange]
  /\ fault = [r \in Reqs |-> FALSE]
  /\ up = NoUpload
  /\ gone = {}

\* the file routes at rest, the rest of the program not running
Quiet ==
  /\ NoRequests
  /\ flow = Off /\ cmp = Off
  /\ client = Off /\ caller = Off
  /\ likes = Off /\ toggler = Off
  /\ subs = Off /\ payer = Off
  /\ playlist = Off /\ gate = Off

\* the file routes not running: an empty bucket and no request
FilesOff ==
  /\ files = [id \in FileIds |-> NoFile]
  /\ put = [id \in FileIds |-> NotPut]
  /\ NoRequests

\* One id holds any object an earlier upload may have stored, or none.
Init ==
  /\ \E d \in {NoFile} \cup {FileDoc(L, ct) : L \in 0..MaxLen, ct \in ContentTypes} :
       /\ files = [id \in FileIds |-> IF id = StoredId THEN d ELSE NoFile]
       /\ put = [id \in FileIds |->
                  IF id = StoredId /\ d.exists
                  THEN [done |-> TRUE, blob |-> Blob(d.length), ct |-> d.contentType]
                  ELSE NotPut]
  /\ Quiet


\* ----------------------------------------------------- the response object
SetHeader(rs, name, value) == [rs EXCEPT !.headers[name] = {value}]
Status(rs, code) == [rs EXCEPT !.statusCode = code]
\* res.end(): the status line and headers go out, the response is finished
End(rs) == [rs EXCEPT !.headersSent = TRUE, !.ended = TRUE]
\* res.write(chunk): the first write commits the status line and headers
Write(rs, bytes) == [rs EXCEPT !.headersSent = TRUE, !.body = @ \o bytes]

\* length in bytes of JSON.stringify({error: msg}) / ({message: msg})
JsonBytes(msg) ==
  CASE msg = "Invalid file ID" -> 27
    [] msg = "File not found" -> 26
    [] msg = "Server error" -> 24
    [] msg = "Error streaming file" -> 32
    [] msg = "File deleted successfully" -> 39

\* res.json(obj): express sets Content-Type and Content-Length, writes, ends
Json(rs, msg) ==
  End([SetHeader(SetHeader(rs, "contentType", JsonType), "contentLength", Num(JsonBytes(msg)))
        EXCEPT !.json = msg])

\* ----------------------------------------------- range parsing (both handlers)
\* the parse with an omitted end resolved to fileSize instead of fileSize - 1
ParseRangeEndIsSize(header, fileSize) ==
  LET parts == Split(ReplaceFirst(header, BytesEq), "-")
  IN  [start |-> parseInt(parts[1]),
       end |-> IF Len(parts) >= 2 /\ parts[2] # <<>> THEN parseInt(parts[2])
               ELSE Num(fileSize)]

\* const parts = range.replace(/bytes=/, '').split('-');
\* start = parseInt(parts[0], 10); end = parts[1] ? parseInt(parts[1], 10) : fileSize - 1
ParseRange(header, fileSize) ==
  LET parts == Split(ReplaceFirst(header, BytesEq), "-")
  IN  [start |-> parseInt(parts[1]),
       end |-> IF Len(parts) >= 2 /\ parts[2] # <<>> THEN parseInt(parts[2])
               ELSE Num(fileSize - 1)]

\* the 416 test without its `end >= fileSize` arm
UnsatisfiableNoEndCheck(start, end, fileSize) ==
  JsGE(start, Num(fileSize)) \/ JsGT(start, end)

\* if (start >= fileSize || end >= fileSize || start > end)
Unsatisfiable(start, end, fileSize) ==
  JsGE(start, Num(fileSize)) \/ JsGE(end, Num(fileSize)) \/ JsGT(start, end)

\* `bytes ${start}-${end}/${fileSize}` and `bytes */${fileSize}`
ContentRange(start, end, fileSize) ==
  <<"b", "y", "t", "e", "s", " ">> \o JsStr(start) \o <<"-">> \o JsStr(end) \o <<"/">> \o ToStr(fileSize)
ContentRangeStar(fileSize) == <<"b", "y", "t", "e", "s", " ", "*", "/">> \o ToStr(fileSize)

\* a range branch taken for every content type
HonoursRangeAnyType(header, ct) == header # NoRange

\* range && (contentType.startsWith('audio/') || contentType.startsWith('video/'))
HonoursRange(header, ct) == header # NoRange /\ IsMedia(ct)

\* metadata.metadata?.contentType || 'application/octet-stream'
EffectiveType(doc) == IF doc.contentType = NoContentType THEN OctetStream ELSE doc.contentType

\* a handler without the id check
RejectsIdNever(id) == FALSE

\* if (!ObjectId.isValid(fileId)) return res.status(400)...
RejectsId(id) == ~ObjectIdIsValid(id)

\* a handler without the null check on the metadata
MetadataMissingNever(doc) == FALSE

\* if (!metadata) return res.status(404)...; getFileMetadata gives files[0] || null
MetadataMissing(doc) == ~doc.exists

\* ------------------------------------------------------------- gridfs.js
\* getFileStream passing its inclusive end on as the driver's exclusive end
StreamOptionsInclusiveEnd(start, end) ==
  [hasStart |-> JsGT(start, Num(0)),
   start |-> start,
   hasEnd |-> end # {},
   end |-> IF end = {} THEN Num(0) ELSE CHOOSE e \in end : TRUE]

\* getFileStream testing `end !== undefined`: a null end becomes options.end = 1
StreamOptionsNullEnd(start, end) ==
  [hasStart |-> JsGT(start, Num(0)),
   start |-> start,
   hasEnd |-> TRUE,
   end |-> IF end = {} THEN Num(1) ELSE JsAdd(CHOOSE e \in end : TRUE, Num(1))]

\* getFileStream(fileId, start = 0, end = null): the options handed to
\* bucket.openDownloadStream; end is {} for null, {e} otherwise
StreamOptions(start, end) ==
  [hasStart |-> JsGT(start, Num(0)),
   start |-> start,
   hasEnd |-> end # {},
   end |-> IF end = {} THEN Num(0) ELSE JsAdd(CHOOSE e \in end : TRUE, Num(1))]

\* bucket.openDownloadStream(id, options): bytes options.start (default 0) up
\* to options.end exclusive (default the file's length); nothing is read yet
OpenDownloadStream(options) ==
  [state |-> "open", piped |-> FALSE,
   from |-> IF options.hasStart THEN options.start.v ELSE 0,
   hasEnd |-> options.hasEnd, to |-> options.end,
   pos |-> IF options.hasStart THEN options.start.v ELSE 0]

\* where the stream stops in a file; an end that is not a number limits nothing
StreamStop(s, doc) == IF s.hasEnd /\ ~s.to.nan THEN s.to.v ELSE doc.length

\* the driver refuses a start or end beyond the file, or an end before the start
DriverRejects(s, doc) ==
  \/ s.from > doc.length
  \/ s.hasEnd /\ ~s.to.nan /\ (s.to.v > doc.length \/ s.to.v < s.from)

\* the stream yields one 'data' event per chunk document, trimmed to the range
PieceEnd(s, doc) ==
  LET next == ((s.pos \div ChunkSize) + 1) * ChunkSize
  IN  IF next < StreamStop(s, doc) THEN next ELSE StreamStop(s, doc)
Piece(s, doc) ==
  LET k == s.pos \div ChunkSize
  IN  SubSeq(doc.chunks[k + 1], s.pos - k * ChunkSize + 1, PieceEnd(s, doc) - k * ChunkSize)


\* ------------------------------------------------------------ the handlers
\* A request arrives: express routes it to the handler of its method.
Request(r) ==
  /\ pc[r] = "Idle"
  /\ \E m \in {"HEAD", "GET", "DELETE"}, id \in RequestIds, h \in RangeHeaders :
       /\ m = "DELETE" => h = NoRange
       /\ req' = [req EXCEPT ![r] = [method |-> m, fileId |-> id, range |-> h]]
  /\ pc' = [pc EXCEPT ![r] = "Validating"]
  /\ UNCHANGED <<files, res, stream, calls, range, fault, up, put, gone, rest>>

\* the HEAD failures answered as GET answers them, with a JSON body
HeadFailJson(rs, code) == Json(Status(rs, code), "File not found")

\* router.head: res.status(code).end() of the 400, 404 and 500 outcomes
HeadFail(rs, code) == End(Status(rs, code))

\* router.head: up to the await of getFileMetadata
HeadValidate(r) ==
  /\ pc[r] = "Validating" /\ req[r].method = "HEAD"
  /\ IF RejectsId(req[r].fileId)
     THEN /\ res' = [res EXCEPT ![r] = HeadFail(@, 400)]
          /\ pc' = [pc EXCEPT ![r] = "BadRequest"]
          /\ UNCHANGED calls
     ELSE /\ calls' = [calls EXCEPT ![r] = @ \cup {"getFileMetadata"}]
          /\ pc' = [pc EXCEPT ![r] = "Stating"]
          /\ UNCHANGED res
  /\ UNCHANGED <<files, req, stream, range, fault, up, put, gone, rest>>

\* router.head, lines 796-822: the headers and status for a file that exists
HeadAnswer(rs, doc, id, header) ==
  LET fileSize == doc.length
      contentType == EffectiveType(doc)
      h1 == SetHeader(rs, "cacheControl", CacheHead)
      h2 == SetHeader(h1, "acceptRanges", "bytes")
      h3 == SetHeader(h2, "contentType", contentType)
      h4 == SetHeader(h3, "contentLength", Num(fileSize))
      h5 == SetHeader(h4, "etag", id)
      p == ParseRange(header, fileSize)
  IN  IF HonoursRange(header, contentType)
      THEN IF Unsatisfiable(p.start, p.end, fileSize)
           THEN End(SetHeader(Status(h5, 416), "contentRange", ContentRangeStar(fileSize)))
           ELSE End(SetHeader(SetHeader(Status(h5, 206), "contentRange",
                                        ContentRange(p.start, p.end, fileSize)),
                              "contentLength", JsAdd(JsSub(p.end, p.start), Num(1))))
      ELSE End(h5)

\* router.head: getFileMetadata has settled
HeadStat(r) ==
  /\ pc[r] = "Stating" /\ req[r].method = "HEAD"
  /\ \E dbOk \in BOOLEAN :
       /\ fault' = [fault EXCEPT ![r] = @ \/ ~dbOk]
       /\ LET id == req[r].fileId
              threw == ~ObjectIdIsValid(id) \/ ~dbOk
              doc == files[id]
          IN  IF threw
              THEN /\ res' = [res EXCEPT ![r] = IF @.headersSent THEN @ ELSE HeadFail(@, 500)]
                   /\ pc' = [pc EXCEPT ![r] = "ServerError"]
                   /\ UNCHANGED range
              ELSE IF MetadataMissing(doc)
              THEN /\ res' = [res EXCEPT ![r] = HeadFail(@, 404)]
                   /\ pc' = [pc EXCEPT ![r] = "NotFound"]
                   /\ UNCHANGED range
              ELSE /\ res' = [res EXCEPT ![r] = HeadAnswer(@, doc, id, req[r].range)]
                   /\ range' = [range EXCEPT ![r] =
                        IF HonoursRange(req[r].range, EffectiveType(doc))
                        THEN [partial |-> TRUE] @@ ParseRange(req[r].range, doc.length)
                        ELSE NoParsedRange]
                   /\ pc' = [pc EXCEPT ![r] =
                        IF res'[r].statusCode = 416 THEN "NotSatisfiable" ELSE "Completed"]
  /\ UNCHANGED <<files, req, stream, calls, up, put, gone, rest>>

\* a handler that asks for the stream before it has looked the file up
GetValidateOpensFirst(r) ==
  /\ pc[r] = "Validating" /\ req[r].method = "GET"
  /\ IF RejectsId(req[r].fileId)
     THEN /\ res' = [res EXCEPT ![r] = Json(Status(@, 400), "Invalid file ID")]
          /\ pc' = [pc EXCEPT ![r] = "BadRequest"]
          /\ UNCHANGED calls
     ELSE /\ calls' = [calls EXCEPT ![r] = @ \cup {"getFileStream"}]
          /\ pc' = [pc EXCEPT ![r] = "Opening"]
          /\ UNCHANGED res
  /\ UNCHANGED <<files, req, stream, range, fault, up, put, gone, rest>>

\* router.get: up to the await of getFileMetadata
GetValidate(r) ==
  /\ pc[r] = "Validating" /\ req[r].method = "GET"
  /\ IF RejectsId(req[r].fileId)
     THEN /\ res' = [res EXCEPT ![r] = Json(Status(@, 400), "Invalid file ID")]
          /\ pc' = [pc EXCEPT ![r] = "BadRequest"]
          /\ UNCHANGED calls
     ELSE /\ calls' = [calls EXCEPT ![r] = @ \cup {"getFileMetadata"}]
          /\ pc' = [pc EXCEPT ![r] = "Stating"]
          /\ UNCHANGED res
  /\ UNCHANGED <<files, req, stream, range, fault, up, put, gone, rest>>

\* router.get, lines 846-876 and 893-894: the headers and status decided for a
\* file that exists, before the stream is opened
GetDecide(rs, doc, id, header) ==
  LET fileSize == doc.length
      contentType == EffectiveType(doc)
      h1 == SetHeader(rs, "cacheControl", CacheGet)
      h2 == SetHeader(h1, "acceptRanges", "bytes")
      h3 == SetHeader(h2, "etag", id)
      h4 == SetHeader(h3, "cors", "*")
      p == ParseRange(header, fileSize)
  IN  IF HonoursRange(header, contentType)
      THEN IF Unsatisfiable(p.start, p.end, fileSize)
           THEN End(SetHeader(Status(h4, 416), "contentRange", ContentRangeStar(fileSize)))
           ELSE SetHeader(SetHeader(SetHeader(Status(h4, 206), "contentRange",
                                              ContentRange(p.start, p.end, fileSize)),
                                    "contentLength", JsAdd(JsSub(p.end, p.start), Num(1))),
                          "contentType", contentType)
      ELSE SetHeader(SetHeader(h4, "contentLength", Num(fileSize)), "contentType", contentType)

\* a catch block that logs and answers nothing
GetCatchSilent(rs) == rs

\* catch (error) { if (!res.headersSent) res.status(500).json({error: 'Server error'}) }
GetCatch(rs) == IF rs.headersSent THEN rs ELSE Json(Status(rs, 500), "Server error")

\* a handler whose parsed range lives in a variable all invocations share
GetStatSharedRange(r) ==
  /\ pc[r] = "Stating" /\ req[r].method = "GET"
  /\ \E dbOk \in BOOLEAN :
       /\ fault' = [fault EXCEPT ![r] = @ \/ ~dbOk]
       /\ LET id == req[r].fileId
              threw == ~ObjectIdIsValid(id) \/ ~dbOk
              doc == files[id]
              partial == HonoursRange(req[r].range, EffectiveType(doc))
          IN  IF threw
              THEN /\ res' = [res EXCEPT ![r] = GetCatch(@)]
                   /\ pc' = [pc EXCEPT ![r] = "ServerError"]
                   /\ UNCHANGED <<range, calls>>
              ELSE IF MetadataMissing(doc)
              THEN /\ res' = [res EXCEPT ![r] = Json(Status(@, 404), "File not found")]
                   /\ pc' = [pc EXCEPT ![r] = "NotFound"]
                   /\ UNCHANGED <<range, calls>>
              ELSE /\ res' = [res EXCEPT ![r] = GetDecide(@, doc, id, req[r].range)]
                   /\ range' = [q \in Reqs |->
                        IF partial THEN [partial |-> TRUE] @@ ParseRange(req[r].range, doc.length)
                        ELSE IF q = r THEN NoParsedRange ELSE range[q]]
                   /\ IF res'[r].statusCode = 416
                      THEN /\ pc' = [pc EXCEPT ![r] = "NotSatisfiable"]
                           /\ UNCHANGED calls
                      ELSE /\ pc' = [pc EXCEPT ![r] = "Opening"]
                           /\ calls' = [calls EXCEPT ![r] = @ \cup {"getFileStream"}]
  /\ UNCHANGED <<files, req, stream, up, put, gone, rest>>

\* router.get: getFileMetadata has settled; on success the handler runs on to
\* the call of getFileStream
GetStat(r) ==
  /\ pc[r] = "Stating" /\ req[r].method = "GET"
  /\ \E dbOk \in BOOLEAN :
       /\ fault' = [fault EXCEPT ![r] = @ \/ ~dbOk]
       /\ LET id == req[r].fileId
              threw == ~ObjectIdIsValid(id) \/ ~dbOk
              doc == files[id]
              partial == HonoursRange(req[r].range, EffectiveType(doc))
          IN  IF threw
              THEN /\ res' = [res EXCEPT ![r] = GetCatch(@)]
                   /\ pc' = [pc EXCEPT ![r] = "ServerError"]
                   /\ UNCHANGED <<range, calls>>
              ELSE IF MetadataMissing(doc)
              THEN /\ res' = [res EXCEPT ![r] = Json(Status(@, 404), "File not found")]
                   /\ pc' = [pc EXCEPT ![r] = "NotFound"]
                   /\ UNCHANGED <<range, calls>>
              ELSE /\ res' = [res EXCEPT ![r] = GetDecide(@, doc, id, req[r].range)]
                   /\ range' = [range EXCEPT ![r] =
                        IF partial THEN [partial |-> TRUE] @@ ParseRange(req[r].range, doc.length)
                        ELSE NoParsedRange]
                   /\ IF res'[r].statusCode = 416
                      THEN /\ pc' = [pc EXCEPT ![r] = "NotSatisfiable"]
                           /\ UNCHANGED calls
                      ELSE /\ pc' = [pc EXCEPT ![r] = "Opening"]
                           /\ calls' = [calls EXCEPT ![r] = @ \cup {"getFileStream"}]
  /\ UNCHANGED <<files, req, stream, up, put, gone, rest>>


\* a handler that keeps one download stream per file and hands it to every
\* request of the file that arrives while it is open
GetOpenShared(r) ==
  /\ pc[r] = "Opening"
  /\ \E dbOk \in BOOLEAN :
       /\ fault' = [fault EXCEPT ![r] = @ \/ ~dbOk]
       /\ IF ~dbOk
          THEN /\ res' = [res EXCEPT ![r] = GetCatch(@)]
               /\ pc' = [pc EXCEPT ![r] = "ServerError"]
               /\ UNCHANGED stream
          ELSE /\ stream' = [stream EXCEPT ![r] =
                    IF \E q \in Reqs \ {r} : stream[q].state = "open" /\ req[q].fileId = req[r].fileId
                    THEN stream[CHOOSE q \in Reqs \ {r} :
                                  stream[q].state = "open" /\ req[q].fileId = req[r].fileId]
                    ELSE [OpenDownloadStream(IF range[r].partial
                                             THEN StreamOptions(range[r].start, {range[r].end})
                                             ELSE StreamOptions(Num(0), {}))
                            EXCEPT !.piped = TRUE]]
               /\ pc' = [pc EXCEPT ![r] = "Streaming"]
               /\ UNCHANGED res
  /\ UNCHANGED <<files, req, calls, range, up, put, gone, rest>>

\* router.get: await getFileStream(...) has settled; downloadStream.pipe(res)
GetOpen(r) ==
  /\ pc[r] = "Opening"
  /\ \E dbOk \in BOOLEAN :
       /\ fault' = [fault EXCEPT ![r] = @ \/ ~dbOk]
       /\ IF ~dbOk
          THEN /\ res' = [res EXCEPT ![r] = GetCatch(@)]
               /\ pc' = [pc EXCEPT ![r] = "ServerError"]
               /\ UNCHANGED stream
          ELSE /\ stream' = [stream EXCEPT ![r] =
                    [OpenDownloadStream(IF range[r].partial
                                        THEN StreamOptions(range[r].start, {range[r].end})
                                        ELSE StreamOptions(Num(0), {}))
                       EXCEPT !.piped = TRUE]]
               /\ pc' = [pc EXCEPT ![r] = "Streaming"]
               /\ UNCHANGED res
  /\ UNCHANGED <<files, req, calls, range, up, put, gone, rest>>

\* the piped stream has more to give
CanRead(r) ==
  /\ pc[r] = "Streaming" /\ stream[r].state = "open" /\ stream[r].piped
  /\ files[req[r].fileId].exists
  /\ ~DriverRejects(stream[r], files[req[r].fileId])

\* 'data' on the piped stream: pipe calls res.write(chunk). A write to a
\* response whose socket is gone fails and the pipe stops the flow.
StreamData(r) ==
  /\ CanRead(r)
  /\ LET doc == files[req[r].fileId]
         s == stream[r]
     IN  /\ s.pos < StreamStop(s, doc)
         /\ IF res[r].destroyed
            THEN /\ stream' = [stream EXCEPT ![r] = [s EXCEPT !.pos = PieceEnd(s, doc), !.piped = FALSE]]
                 /\ pc' = [pc EXCEPT ![r] = "Aborted"]
                 /\ UNCHANGED res
            ELSE /\ stream' = [stream EXCEPT ![r] = [s EXCEPT !.pos = PieceEnd(s, doc)]]
                 /\ res' = [res EXCEPT ![r] = Write(@, Piece(s, doc))]
                 /\ UNCHANGED pc
  /\ UNCHANGED <<files, req, calls, range, fault, up, put, gone, rest>>

\* 'end' on the piped stream: pipe calls res.end()
StreamEnd(r) ==
  /\ CanRead(r)
  /\ stream[r].pos >= StreamStop(stream[r], files[req[r].fileId])
  /\ stream' = [stream EXCEPT ![r] = [@ EXCEPT !.state = "ended", !.piped = FALSE]]
  /\ res' = [res EXCEPT ![r] = End(@)]
  /\ pc' = [pc EXCEPT ![r] = IF res[r].destroyed THEN "Aborted" ELSE "Completed"]
  /\ UNCHANGED <<files, req, calls, range, fault, up, put, gone, rest>>

\* downloadStream.on('error') of the range branch, lines 883-890
RangeStreamError(rs) ==
  IF ~rs.headersSent /\ ~rs.destroyed THEN Json(Status(rs, 500), "Error streaming file")
  ELSE IF ~rs.destroyed THEN End(rs)
  ELSE rs

\* downloadStream.on('error') of the full-content branch, lines 899-904
FullStreamError(rs) ==
  IF ~rs.headersSent THEN Json(Status(rs, 500), "Error streaming file") ELSE rs

\* 'error' on the stream (the store fails, the file is gone, or the driver
\* refuses the options): the stream destroys itself, pipe leaves res alone,
\* the handler's listener runs
StreamError(r) ==
  /\ pc[r] = "Streaming" /\ stream[r].state = "open" /\ stream[r].piped
  /\ stream' = [stream EXCEPT ![r] = [@ EXCEPT !.state = "destroyed", !.piped = FALSE]]
  /\ res' = [res EXCEPT ![r] = IF range[r].partial THEN RangeStreamError(@) ELSE FullStreamError(@)]
  /\ pc' = [pc EXCEPT ![r] =
       IF res'[r].statusCode = 500 THEN "ServerError"
       ELSE IF res[r].destroyed THEN "Aborted"
       ELSE IF res'[r].ended THEN "Truncated"
       ELSE "Stalled"]
  /\ UNCHANGED <<files, req, calls, range, fault, up, put, gone, rest>>

\* The client goes away: the socket closes and res is destroyed. A pipe into
\* res unpipes on res 'close'; nothing in the handlers listens for it.
ClientClose(r) ==
  /\ pc[r] \in {"Validating", "Stating", "Opening", "Streaming", "Stalled", "Deleting"}
  /\ ~res[r].destroyed
  /\ res' = [res EXCEPT ![r].destroyed = TRUE]
  /\ stream' = [stream EXCEPT ![r].piped = FALSE]
  /\ pc' = [pc EXCEPT ![r] = IF @ \in {"Streaming", "Stalled"} THEN "Aborted" ELSE @]
  /\ UNCHANGED <<files, req, calls, range, fault, up, put, gone, rest>>

\* router.delete: up to the await of deleteFile
DeleteValidate(r) ==
  /\ pc[r] = "Validating" /\ req[r].method = "DELETE"
  /\ IF RejectsId(req[r].fileId)
     THEN /\ res' = [res EXCEPT ![r] = Json(Status(@, 400), "Invalid file ID")]
          /\ pc' = [pc EXCEPT ![r] = "BadRequest"]
          /\ UNCHANGED calls
     ELSE /\ calls' = [calls EXCEPT ![r] = @ \cup {"deleteFile"}]
          /\ pc' = [pc EXCEPT ![r] = "Deleting"]
          /\ UNCHANGED res
  /\ UNCHANGED <<files, req, stream, range, fault, up, put, gone, rest>>

\* bucket.delete aimed at a bucket that does not hold the file: nothing goes
BucketDeleteElsewhere(fs, id, chunksOk) == fs

\* deleteFile: bucket.delete removes the file document, then the chunks of the
\* id; when the second removal fails the chunks stay behind without a document.
BucketDelete(fs, id, chunksOk) ==
  [fs EXCEPT ![id] = IF chunksOk THEN NoFile ELSE [NoFile EXCEPT !.chunks = fs[id].chunks]]

\* router.delete: deleteFile has settled. bucket.delete throws when the store
\* fails and also when it removed no file document.
DeleteFile(r) ==
  /\ pc[r] = "Deleting"
  /\ \E dbOk \in BOOLEAN, chunksOk \in BOOLEAN :
       LET id == req[r].fileId
       IN  IF ~ObjectIdIsValid(id) \/ ~dbOk
           THEN /\ res' = [res EXCEPT ![r] = Json(Status(@, 500), "Server error")]
                /\ pc' = [pc EXCEPT ![r] = "ServerError"]
                /\ fault' = [fault EXCEPT ![r] = @ \/ ~dbOk]
                /\ UNCHANGED <<files, gone, put>>
           ELSE /\ files' = BucketDelete(files, id, chunksOk)
                /\ put' = [put EXCEPT ![id] = NotPut]
                /\ fault' = [fault EXCEPT ![r] = @ \/ ~chunksOk]
                /\ IF files[id].exists /\ chunksOk
                   THEN /\ res' = [res EXCEPT ![r] = Json(@, "File deleted successfully")]
                        /\ pc' = [pc EXCEPT ![r] = "Deleted"]
                        /\ gone' = gone \cup {id}
                   ELSE /\ res' = [res EXCEPT ![r] = Json(Status(@, 500), "Server error")]
                        /\ pc' = [pc EXCEPT ![r] = "ServerError"]
                        /\ UNCHANGED gone
  /\ UNCHANGED <<req, stream, calls, range, up, rest>>

\* The exchange is over; the next request on this connection slot starts afresh.
NextRequest(r) ==
  /\ pc[r] \in Terminal
  /\ pc' = [pc EXCEPT ![r] = "Idle"]
  /\ req' = [req EXCEPT ![r] = NoRequest]
  /\ res' = [res EXCEPT ![r] = NewResponse]
  /\ stream' = [stream EXCEPT ![r] = NoStream]
  /\ calls' = [calls EXCEPT ![r] = {}]
  /\ range' = [range EXCEPT ![r] = NoParsedRange]
  /\ fault' = [fault EXCEPT ![r] = FALSE]
  /\ UNCHANGED <<files, up, put, gone, rest>>

Next ==
  \E r \in Solo :
    \/ Request(r)
    \/ HeadValidate(r)
    \/ HeadStat(r)
    \/ GetValidate(r)
    \/ GetStat(r)
    \/ GetOpen(r)
    \/ StreamData(r)
    \/ StreamEnd(r)
    \/ StreamError(r)
    \/ ClientClose(r)
    \/ DeleteValidate(r)
    \/ DeleteFile(r)
    \/ NextRequest(r)

Spec == Init /\ [][Next]_vars

\* ------------------------------------------------------------- requests in parallel
\* The requests of the concurrent behaviours: on one stored object of the
\* greatest length, for all of it or for ranges that overlap.
ConcRanges ==
  {NoRange, RangeHeader(ToStr(0), ToStr(1)), RangeHeader(ToStr(1), <<>>)}
ConcRequest(r) ==
  /\ pc[r] = "Idle"
  /\ \E m \in {"HEAD", "GET", "DELETE"}, h \in ConcRanges :
       /\ m = "DELETE" => h = NoRange
       /\ req' = [req EXCEPT ![r] = [method |-> m, fileId |-> StoredId, range |-> h]]
  /\ pc' = [pc EXCEPT ![r] = "Validating"]
  /\ UNCHANGED <<files, res, stream, calls, range, fault, up, put, gone, rest>>

InitConc ==
  /\ \E ct \in {MimeType("video", "mp4"), MimeType("image", "png")} :
       /\ files = [id \in FileIds |-> IF id = StoredId THEN FileDoc(MaxLen, ct) ELSE NoFile]
       /\ put = [id \in FileIds |->
                  IF id = StoredId
                  THEN [done |-> TRUE, blob |-> Blob(MaxLen), ct |-> ct]
                  ELSE NotPut]
  /\ Quiet

\* every invocation runs up to its next await or stream event, in any order
NextConc ==
  \E r \in Reqs :
    \/ ConcRequest(r)
    \/ HeadValidate(r)
    \/ HeadStat(r)
    \/ GetValidate(r)
    \/ GetStat(r)
    \/ GetOpen(r)
    \/ StreamData(r)
    \/ StreamEnd(r)
    \/ StreamError(r)
    \/ ClientClose(r)
    \/ DeleteValidate(r)
    \/ DeleteFile(r)
    \/ NextRequest(r)

SpecConc == InitConc /\ [][NextConc]_vars

\* ------------------------------------------------------------- uploadFile
\* The files handed to uploadFile: images that are empty, of one byte, of
\* exactly one chunk, and of several chunks with a remainder, and a video of
\* the last length; multer always supplies a mimetype.
UploadLens == {0, 1, ChunkSize, 2 * ChunkSize + 1}
UploadFiles ==
  {[length |-> L, mimetype |-> MimeType("image", "png")] : L \in UploadLens}
    \cup {[length |-> 2 * ChunkSize + 1, mimetype |-> MimeType("video", "mp4")]}

\* an upload that hands the type over where getFileMetadata's readers do not look
UploadDocTypeless(blob, ct, chunks) ==
  [exists |-> TRUE, length |-> Len(blob), contentType |-> NoContentType, chunks |-> chunks]

\* the file document the upload stream inserts after its last chunk:
\* length, and metadata { contentType: file.mimetype, ...metadata }
UploadDoc(blob, ct, chunks) ==
  [exists |-> TRUE, length |-> Len(blob), contentType |-> ct, chunks |-> chunks]

\* an 'error' listener that hands out the id all the same
OnUploadErrorResolves(u) == [u EXCEPT !.state = "resolved"]

\* uploadStream.on('error', reject)
OnUploadError(u) == [u EXCEPT !.state = "rejected"]

\* uploadStream.on('finish', () => resolve(uploadStream.id.toString()))
OnUploadFinish(u) == [u EXCEPT !.state = "resolved"]

\* uploadFile up to uploadStream.end(file.buffer): getBucket may throw; the
\* stream is opened under a new id
UploadStart ==
  /\ up.state = "idle" /\ up.made < MaxUploads
  /\ \E file \in UploadFiles, dbOk \in BOOLEAN :
       up' = IF dbOk
             THEN [state |-> "writing", opened |-> TRUE, id |-> UploadId(up.made + 1),
                   blob |-> Blob(file.length), ct |-> file.mimetype, made |-> up.made + 1]
             ELSE [up EXCEPT !.state = "rejected"]
  /\ UNCHANGED <<files, pc, req, res, stream, calls, range, fault, put, gone, rest>>

\* the upload stream inserts the next chunk document, or the insert fails
UploadChunk ==
  /\ up.state = "writing"
  /\ Len(files[up.id].chunks) < Len(ChunksOf(up.blob))
  /\ \E dbOk \in BOOLEAN :
       IF dbOk
       THEN /\ files' = [files EXCEPT ![up.id].chunks =
                           Append(@, ChunksOf(up.blob)[Len(@) + 1])]
            /\ UNCHANGED up
       ELSE /\ up' = OnUploadError(up)
            /\ UNCHANGED files
  /\ UNCHANGED <<pc, req, res, stream, calls, range, fault, put, gone, rest>>

\* every chunk is in: the upload stream inserts the file document, or fails to
UploadCommit ==
  /\ up.state = "writing"
  /\ Len(files[up.id].chunks) = Len(ChunksOf(up.blob))
  /\ \E dbOk \in BOOLEAN :
       IF dbOk
       THEN /\ files' = [files EXCEPT ![up.id] = UploadDoc(up.blob, up.ct, @.chunks)]
            /\ up' = [up EXCEPT !.state = "committed"]
            /\ put' = [put EXCEPT ![up.id] = [done |-> TRUE, blob |-> up.blob, ct |-> up.ct]]
       ELSE /\ up' = OnUploadError(up)
            /\ UNCHANGED <<files, put>>
  /\ UNCHANGED <<pc, req, res, stream, calls, range, fault, gone, rest>>

\* 'finish': the promise of uploadFile resolves with the id
UploadFinish ==
  /\ up.state = "committed"
  /\ up' = OnUploadFinish(up)
  /\ UNCHANGED <<files, pc, req, res, stream, calls, range, fault, put, gone, rest>>

\* the caller has the id or the error; the next upload may start
UploadReturn ==
  /\ up.state \in {"resolved", "rejected"}
  /\ up' = [NoUpload EXCEPT !.made = up.made]
  /\ UNCHANGED <<files, pc, req, res, stream, calls, range, fault, put, gone, rest>>

\* The ids a client can name: those of the uploads that have settled. The id
\* of an upload leaves uploadFile only as the value its promise resolves with.
SettledIds ==
  {UploadId(k) : k \in 1..up.made}
    \ (IF up.state \in {"writing", "committed"} THEN {up.id} ELSE {})

\* The requests of the store behaviours: on the ids of settled uploads, for
\* the whole object or all of it from offset 0.
StoreRanges == {NoRange, RangeHeader(ToStr(0), <<>>)}
StoreRequest(r) ==
  /\ pc[r] = "Idle"
  /\ \E m \in {"HEAD", "GET", "DELETE"}, id \in SettledIds, h \in StoreRanges :
       /\ m = "DELETE" => h = NoRange
       /\ req' = [req EXCEPT ![r] = [method |-> m, fileId |-> id, range |-> h]]
  /\ pc' = [pc EXCEPT ![r] = "Validating"]
  /\ UNCHANGED <<files, res, stream, calls, range, fault, up, put, gone, rest>>

\* An empty bucket
InitStore ==
  /\ files = [id \in FileIds |-> NoFile]
  /\ put = [id \in FileIds |-> NotPut]
  /\ Quiet

NextStore ==
  \/ UploadStart
  \/ UploadChunk
  \/ UploadCommit
  \/ UploadFinish
  \/ UploadReturn
  \/ \E r \in Solo :
       \/ StoreRequest(r)
       \/ HeadValidate(r)
       \/ HeadStat(r)
       \/ GetValidate(r)
       \/ GetStat(r)
       \/ GetOpen(r)
       \/ StreamData(r)
       \/ StreamEnd(r)
       \/ StreamError(r)
       \/ ClientClose(r)
       \/ DeleteValidate(r)
       \/ DeleteFile(r)
       \/ NextRequest(r)

SpecStore == InitStore /\ [][NextStore]_vars


\* ------------------------------------------------------------ properties
Doc(r) == files[req[r].fileId]
OnFile(r, methods) ==
  /\ req[r].method \in methods
  /\ ObjectIdIsValid(req[r].fileId)
  /\ Doc(r).exists
Decided(r) == pc[r] \notin {"Idle", "Validating", "Stating"}
Header(r, name) == res[r].headers[name]
IsPrefixOf(a, b) == Len(a) <= Len(b) /\ a = SubSeq(b, 1, Len(a))
\* the stored bytes at offsets s..e inclusive
Slice(r, s, e) == SubSeq(Blob(Doc(r).length), s + 1, e + 1)

\* C1: a GET of an audio/video object of length L with 'Range: bytes=s-e',
\* 0 <= s <= e < L, is answered 206 with Content-Range 'bytes s-e/L' and
\* Content-Length e-s+1 (or 500 when the store fails before the first byte);
\* the bytes written are always a prefix of the stored bytes s..e and, once the
\* stream has ended, exactly those bytes.
C1_RangeServed ==
  \A r \in Reqs :
    OnFile(r, {"GET"}) /\ IsMedia(Doc(r).contentType) =>
      \A s \in 0..(Doc(r).length - 1), e \in 0..(Doc(r).length - 1) :
        s <= e /\ req[r].range = RangeHeader(ToStr(s), ToStr(e)) =>
          /\ res[r].headersSent => res[r].statusCode \in {206, 500}
          /\ Decided(r) /\ res[r].statusCode = 206 =>
               /\ Header(r, "contentRange") =
                    {<<"b", "y", "t", "e", "s", " ">> \o ToStr(s) \o <<"-">> \o ToStr(e)
                       \o <<"/">> \o ToStr(Doc(r).length)}
               /\ Header(r, "contentLength") = {Num(e - s + 1)}
          /\ IsPrefixOf(res[r].body, Slice(r, s, e))
          /\ pc[r] = "Completed" =>
               /\ res[r].statusCode = 206 /\ res[r].headersSent /\ res[r].ended
               /\ res[r].body = Slice(r, s, e)

\* a range strictly inside the object, across a chunk boundary, fully served
C1_Witness ==
  \E r \in Reqs :
    /\ OnFile(r, {"GET"}) /\ pc[r] = "Completed" /\ res[r].statusCode = 206
    /\ req[r].range = RangeHeader(ToStr(1), ToStr(2))
    /\ Doc(r).length = 4 /\ Len(res[r].body) = 2

\* C2: a GET without a Range header of an object of length L is answered 200
\* with Content-Length L (or 500 when the store fails before the first byte);
\* the chunks written are always a prefix of the stored bytes and, once the
\* stream has ended, all of them in order.
C2_FullServed ==
  \A r \in Reqs :
    OnFile(r, {"GET"}) /\ req[r].range = NoRange =>
      /\ res[r].headersSent => res[r].statusCode \in {200, 500}
      /\ Decided(r) /\ res[r].statusCode = 200 =>
           /\ Header(r, "contentLength") = {Num(Doc(r).length)}
           /\ Header(r, "contentRange") = {}
      /\ IsPrefixOf(res[r].body, Blob(Doc(r).length))
      /\ pc[r] = "Completed" =>
           /\ res[r].statusCode = 200 /\ res[r].headersSent /\ res[r].ended
           /\ res[r].body = Blob(Doc(r).length)

\* a whole object of several chunks and a remainder, fully served
C2_Witness ==
  \E r \in Reqs :
    /\ OnFile(r, {"GET"}) /\ req[r].range = NoRange /\ pc[r] = "Completed"
    /\ Doc(r).length = 3 /\ Len(res[r].body) = 3

\* the start and end a header 'bytes=s-e' or 'bytes=s-' asks for in an object of length L
Asks(r, s, e) ==
  \/ e >= 0 /\ req[r].range = RangeHeader(ToStr(s), ToStr(e))
  \/ e = Doc(r).length - 1 /\ req[r].range = RangeHeader(ToStr(s), <<>>)

\* C3: a GET or HEAD of an audio/video object of length L whose range has
\* start >= L or end >= L or start > end is answered 416 with Content-Range
\* 'bytes */L' (unless the metadata lookup failed), no body is written and no
\* read stream is opened.
C3_Unsatisfiable416 ==
  \A r \in Reqs :
    OnFile(r, {"GET", "HEAD"}) /\ IsMedia(Doc(r).contentType) =>
      \A s \in 0..(MaxLen + 1), e \in (0 - 1)..(MaxLen + 1) :
        Asks(r, s, e) /\ (s >= Doc(r).length \/ e >= Doc(r).length \/ s > e) =>
          /\ Decided(r) /\ pc[r] # "ServerError" =>
               /\ pc[r] = "NotSatisfiable"
               /\ res[r].statusCode = 416 /\ res[r].headersSent /\ res[r].ended
               /\ Header(r, "contentRange") =
                    {<<"b", "y", "t", "e", "s", " ", "*", "/">> \o ToStr(Doc(r).length)}
          /\ res[r].body = <<>> /\ res[r].json \in {"", "Server error"}
          /\ stream[r].state = "none" /\ "getFileStream" \notin calls[r]

\* a GET answered 416 because only its end lies beyond the object
C3_Witness ==
  \E r \in Reqs :
    /\ OnFile(r, {"GET"}) /\ pc[r] = "NotSatisfiable" /\ res[r].statusCode = 416
    /\ Doc(r).length = 2 /\ req[r].range = RangeHeader(ToStr(1), ToStr(2))


\* C4: a range is served only when it resolves to integers 0 <= start <= end < L:
\* every request on the range branch answered 206 has such a start and end,
\* and a Range header that resolves to no such pair ends as not satisfiable.
C4_OnlySatisfiableServed ==
  \A r \in Reqs :
    OnFile(r, {"GET", "HEAD"}) /\ range[r].partial =>
      LET ok == /\ ~range[r].start.nan /\ ~range[r].end.nan
                /\ 0 <= range[r].start.v /\ range[r].start.v <= range[r].end.v
                /\ range[r].end.v < Doc(r).length
      IN  /\ res[r].statusCode = 206 => ok
          /\ ~ok => pc[r] = "NotSatisfiable" /\ res[r].statusCode = 416

\* C5: a GET of an audio/video object of length L with 'Range: bytes=s-',
\* s < L, is answered 206 with Content-Range 'bytes s-(L-1)/L' and
\* Content-Length L-s (or 500 when the store fails before the first byte), and
\* once the stream has ended exactly the last L-s bytes have been written.
C5_OpenEndedRange ==
  \A r \in Reqs :
    OnFile(r, {"GET"}) /\ IsMedia(Doc(r).contentType) =>
      \A s \in 0..(Doc(r).length - 1) :
        req[r].range = RangeHeader(ToStr(s), <<>>) =>
          /\ res[r].headersSent => res[r].statusCode \in {206, 500}
          /\ Decided(r) /\ pc[r] # "ServerError" =>
               /\ res[r].statusCode = 206
               /\ range[r].end = Num(Doc(r).length - 1)
               /\ Header(r, "contentRange") =
                    {<<"b", "y", "t", "e", "s", " ">> \o ToStr(s) \o <<"-">>
                       \o ToStr(Doc(r).length - 1) \o <<"/">> \o ToStr(Doc(r).length)}
               /\ Header(r, "contentLength") = {Num(Doc(r).length - s)}
          /\ pc[r] = "Completed" =>
               /\ res[r].headersSent /\ res[r].ended
               /\ res[r].body = Slice(r, s, Doc(r).length - 1)

\* 'bytes=3-' on an object of 4 bytes: the last byte alone is served
C5_Witness ==
  \E r \in Reqs :
    /\ OnFile(r, {"GET"}) /\ pc[r] = "Completed" /\ res[r].statusCode = 206
    /\ req[r].range = RangeHeader(ToStr(3), <<>>)
    /\ Doc(r).length = 4 /\ Len(res[r].body) = 1

\* C6: a GET, HEAD or DELETE with a malformed id is answered 400, and no
\* gridfs helper (metadata lookup, read stream, delete) is called for it.
C6_MalformedIdRejected ==
  \A r \in Reqs :
    req[r].method \in {"GET", "HEAD", "DELETE"} /\ ~ObjectIdIsValid(req[r].fileId) =>
      /\ pc[r] \in {"Validating", "BadRequest"}
      /\ pc[r] = "BadRequest" =>
           res[r].statusCode = 400 /\ res[r].headersSent /\ res[r].ended
      /\ calls[r] = {} /\ stream[r].state = "none" /\ res[r].body = <<>>

\* a DELETE with a malformed id, answered
C6_Witness ==
  \E r \in Reqs :
    /\ req[r].method = "DELETE" /\ ~ObjectIdIsValid(req[r].fileId)
    /\ pc[r] = "BadRequest" /\ res[r].statusCode = 400

\* C7: a GET or HEAD with a well-formed id that names no object is answered
\* 404 (unless the lookup itself failed), opens no read stream and writes no
\* object bytes.
C7_NotFound404 ==
  \A r \in Reqs :
    /\ req[r].method \in {"GET", "HEAD"}
    /\ ObjectIdIsValid(req[r].fileId) /\ ~Doc(r).exists
    => /\ Decided(r) /\ pc[r] # "ServerError" =>
            /\ pc[r] = "NotFound"
            /\ res[r].statusCode = 404 /\ res[r].headersSent /\ res[r].ended
       /\ stream[r].state = "none" /\ "getFileStream" \notin calls[r]
       /\ res[r].body = <<>>

\* a GET of an absent object, answered
C7_Witness ==
  \E r \in Reqs :
    /\ req[r].method = "GET" /\ ObjectIdIsValid(req[r].fileId) /\ ~Doc(r).exists
    /\ pc[r] = "NotFound" /\ res[r].json = "File not found"

\* C8: no request ends with the read stream it opened still open: once the
\* client has gone or the response has ended, the stream has ended or been
\* destroyed.
C8_StreamClosedAtEnd ==
  \A r \in Reqs : pc[r] \in Terminal => stream[r].state # "open"

\* the status and headers GET decides for the inputs of request r
GetFor(r) == GetDecide(NewResponse, Doc(r), req[r].fileId, req[r].range)
ComparedHeaders == {"contentType", "contentLength", "acceptRanges", "cacheControl",
                    "etag", "contentRange"}

\* C9: a HEAD of an object yields the status and the Content-Type,
\* Content-Length, Accept-Ranges, Cache-Control, ETag and Content-Range that a
\* GET yields for the same object and Range header.
C9_HeadEqualsGet ==
  \A r \in Reqs :
    OnFile(r, {"HEAD"}) /\ pc[r] \in {"Completed", "NotSatisfiable"} =>
      /\ res[r].statusCode = GetFor(r).statusCode
      /\ \A h \in ComparedHeaders : Header(r, h) = GetFor(r).headers[h]

\* C10: a HEAD never calls getFileStream, never has a read stream and never
\* writes a body, whichever of 200, 206, 400, 404, 416 and 500 it answers.
C10_HeadNoStreamNoBody ==
  \A r \in Reqs :
    req[r].method = "HEAD" =>
      /\ "getFileStream" \notin calls[r] /\ stream[r].state = "none"
      /\ res[r].body = <<>> /\ res[r].json = ""
      /\ res[r].statusCode \in {200, 206, 400, 404, 416, 500}
      /\ pc[r] \in Terminal => res[r].ended

\* a HEAD answered 206
C10_Witness ==
  \E r \in Reqs :
    /\ OnFile(r, {"HEAD"}) /\ pc[r] = "Completed" /\ res[r].ended
    /\ res[r].statusCode = 206 /\ Header(r, "contentLength") = {Num(2)}

\* ------------------------------------------------------------- state machine
\* The state of the per-request state machine a GET is in. RangeDeciding is
\* passed within the step that leaves Stating; a response left open after a
\* stream error has not left Streaming.
Phase(r) ==
  CASE pc[r] = "Idle" -> "Start"
    [] pc[r] = "Opening" -> IF range[r].partial THEN "PartialBody" ELSE "FullBody"
    [] pc[r] = "Stalled" -> "Streaming"
    [] pc[r] \in {"ServerError", "Truncated"} -> "Error"
    [] OTHER -> pc[r]

SpecTransitions ==
  {<<"Start", "Validating">>, <<"Validating", "BadRequest">>, <<"Validating", "Stating">>,
   <<"Stating", "NotFound">>, <<"Stating", "FullBody">>, <<"Stating", "PartialBody">>,
   <<"Stating", "NotSatisfiable">>, <<"FullBody", "Streaming">>,
   <<"PartialBody", "Streaming">>, <<"Streaming", "Completed">>, <<"Streaming", "Aborted">>}
ErrorExits ==
  {<<"Stating", "Error">>, <<"FullBody", "Error">>, <<"PartialBody", "Error">>,
   <<"Streaming", "Error">>}

\* a step of a GET that changes its state makes one of the given transitions
FollowsOnly(transitions) ==
  \A r \in Reqs :
    req'[r].method = "GET" /\ Phase(r)' # Phase(r) => <<Phase(r), Phase(r)'>> \in transitions

\* the read stream is opened from FullBody/PartialBody only, after the metadata
\* lookup found the file and the status and headers were set; a request that
\* has a stream keeps that one
OneStreamAfterDecision ==
  \A r \in Reqs :
    /\ stream[r].state = "none" /\ stream'[r].state # "none" =>
         /\ pc[r] = "Opening" /\ "getFileMetadata" \in calls[r]
         /\ Doc(r).exists
         /\ res[r].statusCode = (IF range[r].partial THEN 206 ELSE 200)
         /\ Header(r, "contentLength") # {} /\ Header(r, "contentType") # {}
         /\ range[r].partial <=> Header(r, "contentRange") # {}
    /\ stream[r].state # "none" /\ req'[r] = req[r] =>
         /\ stream'[r].state # "none" /\ pc'[r] # "Opening"
         /\ <<stream'[r].from, stream'[r].hasEnd, stream'[r].to>>
              = <<stream[r].from, stream[r].hasEnd, stream[r].to>>

\* C11 as stated: every GET follows only the transitions Start -> Validating
\* -> (BadRequest | Stating), Stating -> (NotFound | RangeDeciding),
\* RangeDeciding -> (FullBody | PartialBody | NotSatisfiable), FullBody /
\* PartialBody -> Streaming -> (Completed | Aborted). Refuted by the exits to
\* an error response.
C11_OnlySpecTransitions == [][FollowsOnly(SpecTransitions)]_vars

\* C11: every GET follows only the transitions of the state machine or an exit
\* to an error response from Stating, FullBody, PartialBody or Streaming; the
\* read stream is opened only after a successful metadata lookup and after the
\* status and headers have been decided, and at most one per request.
C11_TransitionsWithErrorExits ==
  [][FollowsOnly(SpecTransitions \cup ErrorExits) /\ OneStreamAfterDecision]_vars

\* a GET has gone through every state up to Completed with its single stream
C11_Witness ==
  \E r \in Reqs :
    /\ OnFile(r, {"GET"}) /\ pc[r] = "Completed" /\ stream[r].state = "ended"
    /\ range[r].partial /\ res[r].body # <<>>

\* ------------------------------------------------------------- termination
\* the steps of a GET that the handler, the store or the stream takes
ServerStep(r) ==
  \/ GetValidate(r) \/ GetStat(r) \/ GetOpen(r)
  \/ StreamData(r) \/ StreamEnd(r) \/ StreamError(r)

\* C12: every GET reaches a terminal state (BadRequest, NotFound,
\* NotSatisfiable, Completed, Aborted or an error response): a GET that is in
\* none has a step of the handler, the store or the stream left to take, or
\* the client has gone; none is left waiting with its response neither ended
\* nor destroyed, a read stream that errored after the headers included.
C12_GetTerminates ==
  \A r \in Reqs :
    req[r].method = "GET" /\ pc[r] \notin Terminal =>
      \/ ENABLED ServerStep(r)
      \/ res[r].ended \/ res[r].destroyed

\* the read stream of r fails in this step, the response headers already sent
FailsAfterHeaders(r) ==
  /\ pc[r] = "Streaming" /\ res[r].headersSent
  /\ stream[r].state = "open" /\ stream'[r].state = "destroyed"

\* C13: when the read stream fails after the response headers were sent, the
\* status is left as it was, no stream is opened again for the request and
\* the response is ended or destroyed in that step, on the full-content path
\* and on the range path.
C13_StreamFailureTerminates ==
  [][\A r \in Reqs :
       FailsAfterHeaders(r) =>
         /\ res'[r].statusCode = res[r].statusCode
         /\ pc'[r] \notin {"Stating", "Opening", "Streaming"}
         /\ res'[r].ended \/ res'[r].destroyed]_vars

\* ------------------------------------------------------------- store failures
\* the store failed in the metadata lookup of r: getFileStream was never called
LookupFailed(r) ==
  /\ req[r].method \in {"GET", "HEAD"}
  /\ fault[r] /\ "getFileStream" \notin calls[r]

\* C14: when the store fails in the metadata lookup of a GET or HEAD the
\* response is 500, no byte of the object has been written, no stream was
\* opened and the response carries no Content-Range and no ETag.
C14_LookupFailure500 ==
  \A r \in Reqs :
    LookupFailed(r) =>
      /\ pc[r] = "ServerError" /\ res[r].statusCode = 500
      /\ res[r].headersSent /\ res[r].body = <<>>
      /\ stream[r].state = "none"
      /\ Header(r, "contentRange") = {} /\ Header(r, "etag") = {}
      /\ res[r].json = (IF req[r].method = "GET" THEN "Server error" ELSE "")

C14_Witness ==
  \E r \in Reqs :
    /\ LookupFailed(r) /\ OnFile(r, {"GET"}) /\ req[r].range # NoRange
    /\ res[r].ended

\* ------------------------------------------------------------- content-type gate
\* a GET with a Range header of a stored object that is neither audio nor video
RangeOnNonMedia(r) ==
  /\ OnFile(r, {"GET"}) /\ req[r].range # NoRange
  /\ ~IsMedia(EffectiveType(Doc(r)))

\* C15: a GET with a Range header of an object whose content type is neither
\* audio/* nor video/* (a missing type counts as application/octet-stream)
\* is served as if the header were absent: 200 with Content-Length L and no
\* Content-Range (or 500 when the store fails before the first byte), the
\* stream read from offset 0 with no end, the bytes written a prefix of the
\* object and, once the stream has ended, the whole object.
C15_RangeIgnoredOnNonMedia ==
  \A r \in Reqs :
    RangeOnNonMedia(r) =>
      /\ ~range[r].partial
      /\ res[r].headersSent => res[r].statusCode \in {200, 500}
      /\ Decided(r) /\ res[r].statusCode = 200 =>
           /\ Header(r, "contentLength") = {Num(Doc(r).length)}
           /\ Header(r, "contentRange") = {}
           /\ Header(r, "contentType") = {EffectiveType(Doc(r))}
      /\ stream[r].state # "none" => stream[r].from = 0 /\ ~stream[r].hasEnd
      /\ IsPrefixOf(res[r].body, Blob(Doc(r).length))
      /\ pc[r] = "Completed" =>
           /\ res[r].statusCode = 200 /\ res[r].headersSent /\ res[r].ended
           /\ res[r].body = Blob(Doc(r).length)

\* an object without a stored type, asked for from its second byte on, served whole
C15_Witness ==
  \E r \in Reqs :
    /\ RangeOnNonMedia(r) /\ Doc(r).contentType = NoContentType
    /\ req[r].range = RangeHeader(ToStr(1), ToStr(1))
    /\ pc[r] = "Completed" /\ Len(res[r].body) > ChunkSize

\* ------------------------------------------------------------- caching headers
\* a GET or HEAD of a stored object answered 200 or 206
Successful(r) ==
  /\ OnFile(r, {"GET", "HEAD"}) /\ Decided(r)
  /\ res[r].statusCode \in {200, 206}

\* C16: every successful response (200 or 206, GET or HEAD) carries
\* Cache-Control 'public, max-age=31536000, immutable', an ETag that is the
\* requested id, and Accept-Ranges 'bytes'.
C16_CachingHeaders ==
  \A r \in Reqs :
    Successful(r) =>
      /\ Header(r, "cacheControl") = {"public, max-age=31536000, immutable"}
      /\ Header(r, "etag") = {req[r].fileId}
      /\ Header(r, "acceptRanges") = {"bytes"}

\* ------------------------------------------------------------- delete
\* C17: once a delete of an id has completed, a metadata lookup of the id
\* finds nothing and every GET or HEAD of it is answered 404 without a body
\* or a stream (500 when the store fails in the lookup), whatever was uploaded
\* to or deleted from other ids meanwhile.
C17_DeletedStaysGone ==
  \A id \in gone :
    /\ MetadataMissing(files[id])
    /\ \A r \in Reqs :
         req[r].method \in {"GET", "HEAD"} /\ req[r].fileId = id /\ Decided(r) =>
           /\ res[r].statusCode = (IF fault[r] THEN 500 ELSE 404)
           /\ pc[r] = (IF fault[r] THEN "ServerError" ELSE "NotFound")
           /\ res[r].body = <<>> /\ stream[r].state = "none"

\* a GET of a deleted id answered 404 while a later upload is stored
C17_Witness ==
  \E r \in Reqs, other \in UploadIds :
    /\ req[r].method = "GET" /\ req[r].fileId \in gone /\ pc[r] = "NotFound"
    /\ other # req[r].fileId /\ other.key > req[r].fileId.key
    /\ files[other].exists /\ files[other].length > ChunkSize

\* C18: a DELETE with a well-formed id ensures the object is gone: once
\* answered, the id resolves to nothing and the answer is 200, whether or not
\* the id resolved to an object before (so a second DELETE is answered as the
\* first); it is 500 only when the store itself failed.
C18_DeleteIdempotent ==
  \A r \in Reqs :
    /\ req[r].method = "DELETE" /\ ObjectIdIsValid(req[r].fileId)
    /\ pc[r] \in Terminal /\ ~fault[r]
    => /\ res[r].statusCode = 200 /\ pc[r] = "Deleted"
       /\ ~Doc(r).exists

\* ------------------------------------------------------------- upload
\* the bytes a download stream delivers from its position to its end
RECURSIVE Drain(_, _)
Drain(s, doc) ==
  IF s.pos >= StreamStop(s, doc) THEN <<>>
  ELSE Piece(s, doc) \o Drain([s EXCEPT !.pos = PieceEnd(s, doc)], doc)

\* getFileStream(id, 0, L - 1) of a stored file of length L
FullRangeStream(doc) == OpenDownloadStream(StreamOptions(Num(0), {Num(doc.length - 1)}))

\* the file under id is what the upload recorded in put[id] stored
RoundTrip(id) ==
  LET doc == files[id]
      blob == put[id].blob
  IN  /\ ~MetadataMissing(doc)
      /\ doc.length = Len(blob) /\ doc.contentType = put[id].ct
      /\ ~DriverRejects(FullRangeStream(doc), doc)
      /\ Drain(FullRangeStream(doc), doc) = blob
      /\ \A r \in Reqs :
           req[r].method = "GET" /\ req[r].fileId = id /\ Decided(r) =>
             /\ IsPrefixOf(res[r].body, blob)
             /\ res[r].statusCode \in {200, 206} =>
                  /\ Header(r, "contentLength") = {Num(Len(blob))}
                  /\ Header(r, "contentType") = {put[id].ct}
             /\ pc[r] = "Completed" => res[r].body = blob

\* C19: for every blob (empty, one byte, exactly one chunk, several chunks
\* and a remainder) the id uploadFile resolves with names a file whose full
\* range 0..L-1 read through getFileStream is the blob, whose metadata
\* lookup gives length L and the uploaded content type, and which a GET
\* serves as the blob.
C19_UploadRoundTrip ==
  /\ up.state = "committed" => put[up.id].done
  /\ \A id \in UploadIds : put[id].done => RoundTrip(id)

\* an upload of several chunks and a remainder has resolved and a GET has
\* read all of it through getFileStream(id, 0, L - 1)
C19_Witness ==
  \E r \in Reqs :
    /\ up.state = "resolved" /\ put[up.id].done
    /\ Len(up.blob) = 2 * ChunkSize + 1
    /\ req[r].method = "GET" /\ req[r].fileId = up.id
    /\ range[r].partial /\ range[r].end = Num(Len(up.blob) - 1)
    /\ pc[r] = "Completed" /\ res[r].body = up.blob

\* no id resolves to a part of a blob: a file document is there only with
\* every byte of the blob its upload was given, and a lookup of an id without
\* one finds nothing, chunks left behind or not
NothingPartial ==
  /\ \A id \in UploadIds :
       files[id].exists =>
         /\ put[id].done /\ files[id].length = Len(put[id].blob)
         /\ Flatten(files[id].chunks) = put[id].blob
  /\ up.state = "rejected" /\ up.opened => MetadataMissing(files[up.id])
  /\ \A r \in Reqs :
       /\ req[r].method \in {"GET", "HEAD"} /\ Decided(r)
       /\ ~Doc(r).exists /\ ~fault[r]
       => /\ pc[r] = "NotFound" /\ res[r].statusCode = 404
          /\ res[r].body = <<>> /\ stream[r].state = "none"

\* the step in which uploadFile resolves finds the whole blob committed under the id
ResolvesCommitted ==
  up.state # "resolved" /\ up'.state = "resolved" =>
    /\ up.opened /\ up'.id = up.id /\ files' = files
    /\ files[up.id] = UploadDoc(up.blob, up.ct, ChunksOf(up.blob))

\* C20: uploadFile resolves with an id only once the whole blob is committed
\* under it; when a write fails partway the call is rejected, and at no time
\* does an id resolve, in a metadata lookup or a read, to part of a blob.
C20_UploadAllOrNothing == []NothingPartial /\ [][ResolvesCommitted]_vars

\* an upload failed after some of its chunks were written, and a GET of its id found nothing
C20_Witness ==
  \E r \in Reqs :
    /\ up.state = "rejected" /\ up.opened /\ files[up.id].chunks # <<>>
    /\ req[r].method = "GET" /\ req[r].fileId = up.id /\ pc[r] = "NotFound"

\* ------------------------------------------------------------- repeated and parallel reads
\* r reads or looks up a stored object, nothing failed in the store for it,
\* and its answer is decided
Answered(r) ==
  /\ OnFile(r, {"GET", "HEAD"}) /\ Decided(r) /\ ~fault[r]
  /\ res[r].statusCode \in {200, 206, 416}

\* C21: while an object has not been deleted, two lookups of its id report
\* the same length and type, and two requests of the same method and Range
\* header get the same status and headers and, once both streams have ended,
\* the same bytes, whatever other requests ran between them.
C21_RepeatedReadsAgree ==
  \A r \in Reqs, q \in Reqs :
    Answered(r) /\ Answered(q) /\ req[r].fileId = req[q].fileId =>
      /\ Header(r, "contentType") = Header(q, "contentType")
      /\ res[r].statusCode = 200 /\ res[q].statusCode = 200 =>
           Header(r, "contentLength") = Header(q, "contentLength")
      /\ req[r].method = req[q].method /\ req[r].range = req[q].range =>
           /\ res[r].statusCode = res[q].statusCode
           /\ res[r].headers = res[q].headers
           /\ pc[r] = "Completed" /\ pc[q] = "Completed" => res[r].body = res[q].body

\* two GETs of the same range have both been served in full
C21_Witness ==
  \E r \in Reqs, q \in Reqs :
    /\ r # q /\ Answered(r) /\ Answered(q)
    /\ req[r].method = "GET" /\ req[q].method = "GET"
    /\ req[r].range = RangeHeader(ToStr(1), <<>>) /\ req[q].range = req[r].range
    /\ range[r].partial
    /\ pc[r] = "Completed" /\ pc[q] = "Completed" /\ Len(res[r].body) = MaxLen - 1

\* what a GET gets when no other request is in flight: the status and headers
\* decided from the metadata, and the bytes of the range or of the whole object
AloneBytes(r) ==
  IF HonoursRange(req[r].range, EffectiveType(Doc(r)))
  THEN LET p == ParseRange(req[r].range, Doc(r).length)
       IN  SubSeq(Blob(Doc(r).length), p.start.v + 1, p.end.v + 1)
  ELSE Blob(Doc(r).length)

\* C22: GETs of the same object in flight together, interleaved at every
\* await and every chunk, each get the status and headers they get alone, at
\* every moment a prefix of the bytes they get alone, and all of them once
\* their stream has ended.
C22_ConcurrentGetsIndependent ==
  \A r \in Reqs :
    Answered(r) /\ req[r].method = "GET" =>
      /\ res[r].statusCode = GetFor(r).statusCode
      /\ res[r].headers = GetFor(r).headers
      /\ IsPrefixOf(res[r].body, AloneBytes(r))
      /\ pc[r] = "Completed" => res[r].body = AloneBytes(r)

\* two GETs of overlapping ranges are both in the middle of their streams
C22_Witness ==
  \E r \in Reqs, q \in Reqs :
    /\ r # q /\ Answered(r) /\ Answered(q)
    /\ req[r].method = "GET" /\ req[q].method = "GET"
    /\ req[r].range = RangeHeader(ToStr(1), <<>>) /\ req[q].range = NoRange
    /\ range[r].partial
    /\ pc[r] = "Streaming" /\ pc[q] = "Streaming"
    /\ res[r].body # <<>> /\ res[q].body # <<>>
    /\ stream[r].state = "open" /\ stream[q].state = "open"

\* ------------------------------------------------------------- flow of a response
\* One response body on its way from the download stream to the client. In
\* mode "pipe" the handler has called downloadStream.pipe(res) (lines 878-897);
\* in mode "data" it writes from a 'data' listener (lines 585-629).
FlowModes == {"pipe", "data"}
\* res.write returns false from this many waiting bytes on (16 KB against
\* chunks of 255 KB)
HighWaterMark == ChunkSize \div 2
\* the greatest length streamed: more than the stream and the response hold
FlowLen == 3 * ChunkSize

NoFlow == [state |-> "idle", mode |-> "pipe", length |-> 0, read |-> 0, held |-> 0,
           buffered |-> 0, paused |-> FALSE, taken |-> 0]

\* pipe's 'data' listener: if (dest.write(chunk) === false) src.pause()
PipeWrite(f, n) ==
  [f EXCEPT !.buffered = @ + n, !.paused = (f.buffered + n >= HighWaterMark)]

\* the handler's 'data' listener: res.write(chunkToSend), the result unused
ListenerWrite(f, n) == [f EXCEPT !.buffered = @ + n]

Emit(f, n) == IF f.mode = "pipe" THEN PipeWrite(f, n) ELSE ListenerWrite(f, n)

\* getFileStream has returned the stream; nothing has been read
FlowOpen ==
  /\ flow.state = "idle"
  /\ \E m \in FlowModes, L \in 1..FlowLen :
       flow' = [NoFlow EXCEPT !.state = "open", !.mode = m, !.length = L]
  /\ UNCHANGED <<fileVars, cmp, client, caller, likes, toggler, subs, payer, playlist, gate>>

\* the store delivers the next chunk: a flowing stream emits it, a paused one
\* keeps it
FlowRead ==
  /\ flow.state = "open" /\ flow.read < flow.length /\ flow.held = 0
  /\ LET n == IF flow.length - flow.read < ChunkSize THEN flow.length - flow.read
              ELSE ChunkSize
         f == [flow EXCEPT !.read = @ + n]
     IN  flow' = IF flow.paused THEN [f EXCEPT !.held = n] ELSE Emit(f, n)
  /\ UNCHANGED <<fileVars, cmp, client, caller, likes, toggler, subs, payer, playlist, gate>>

\* a resumed stream emits the chunk it kept
FlowEmit ==
  /\ flow.state = "open" /\ ~flow.paused /\ flow.held > 0
  /\ flow' = Emit([flow EXCEPT !.held = 0], flow.held)
  /\ UNCHANGED <<fileVars, cmp, client, caller, likes, toggler, subs, payer, playlist, gate>>

\* the client takes bytes; when none wait any more res emits 'drain' and pipe
\* resumes the stream
FlowClientRead ==
  /\ flow.state = "open" /\ flow.buffered > 0
  /\ \E n \in 1..flow.buffered :
       flow' = [flow EXCEPT !.buffered = @ - n, !.taken = @ + n,
                            !.paused = @ /\ flow.buffered > n]
  /\ UNCHANGED <<fileVars, cmp, client, caller, likes, toggler, subs, payer, playlist, gate>>

\* 'end': everything was read and taken
FlowEnd ==
  /\ flow.state = "open" /\ flow.read = flow.length
  /\ flow.held = 0 /\ flow.buffered = 0
  /\ flow' = [flow EXCEPT !.state = "done"]
  /\ UNCHANGED <<fileVars, cmp, client, caller, likes, toggler, subs, payer, playlist, gate>>

FlowNext ==
  /\ flow.state = "done"
  /\ flow' = NoFlow
  /\ UNCHANGED <<fileVars, cmp, client, caller, likes, toggler, subs, payer, playlist, gate>>

InitFlow ==
  /\ FilesOff
  /\ flow = NoFlow /\ cmp = Off
  /\ client = Off /\ caller = Off
  /\ likes = Off /\ toggler = Off
  /\ subs = Off /\ payer = Off
  /\ playlist = Off /\ gate = Off

NextFlow == FlowOpen \/ FlowRead \/ FlowEmit \/ FlowClientRead \/ FlowEnd \/ FlowNext

SpecFlow == InitFlow /\ [][NextFlow]_vars

\* C23: while a response streams, the bytes read from the store and not yet
\* taken by the client are at most what the response buffer and the stream hold
\* at their high-water marks, whatever the length streamed, and the stream is
\* there before anything has been read.
C23_BackPressured ==
  /\ flow.state = "open" =>
       /\ flow.buffered < HighWaterMark + ChunkSize
       /\ flow.held + flow.buffered < HighWaterMark + 2 * ChunkSize
  /\ flow.read = flow.held + flow.buffered + flow.taken

\* the same for responses streamed with pipe only
PipeBackPressured == flow.mode = "pipe" => C23_BackPressured

\* ------------------------------------------- two ways to serve a range
MathMax(a, b) == IF a > b THEN a ELSE b
MathMin(a, b) == IF a < b THEN a ELSE b

RECURSIVE Compositions(_)
\* the ways the store can cut n bytes into chunk documents: their lengths
Compositions(n) ==
  IF n = 0 THEN {<<>>}
  ELSE UNION {{<<k>> \o c : c \in Compositions(n - k)} : k \in 1..n}

RECURSIVE SumTo(_, _)
\* the offset at which the first i chunks end
SumTo(parts, i) == IF i = 0 THEN 0 ELSE parts[i] + SumTo(parts, i - 1)

\* chunk document i of a blob cut into parts
ChunkAt(b, parts, i) == SubSeq(b, SumTo(parts, i - 1) + 1, SumTo(parts, i))

\* const CHUNK_SIZE = 255 * 1024, in the model's unit
CHUNK_SIZE == ChunkSize

\* buffer.slice(a, b)
BufferSlice(buffer, a, b) == SubSeq(buffer, a + 1, b)

\* res.writable && !res.destroyed
Writable(rs) == ~rs.ended /\ ~rs.destroyed

\* the response after res.status(206) and the setHeader calls
RangeResponse == [headersSent |-> FALSE, ended |-> FALSE, destroyed |-> FALSE, body |-> <<>>]

\* if (start === 0 && chunksize < CHUNK_SIZE * 2)
SmallInitial(start, end) == start = 0 /\ (end - start) + 1 < CHUNK_SIZE * 2

\* Math.max(0, start - chunkStart)
SendStart(start, chunkStart) == MathMax(0, start - chunkStart)

\* a handler taking the inclusive end for the slice's exclusive end
SendEndInclusive(chunkLength, end, chunkStart) == MathMin(chunkLength, end - chunkStart)

\* Math.min(chunk.length, end - chunkStart + 1)
SendEnd(chunkLength, end, chunkStart) == MathMin(chunkLength, end - chunkStart + 1)

\* the handler's variables when getFileStream(fileId) has returned
NoSkip == [delivered |-> 0, bytesRead |-> 0, buffer |-> <<>>, chunksSkipped |-> 0,
           startedSending |-> FALSE, destroyed |-> FALSE, streamEnded |-> FALSE,
           res |-> RangeResponse]

\* 'data' of the small initial branch, lines 544-557
SmallData(k, chunk, chunksize) ==
  LET buffer == k.buffer \o chunk
      k1 == [k EXCEPT !.buffer = buffer, !.bytesRead = @ + Len(chunk)]
  IN  IF Len(buffer) >= chunksize
      THEN [k1 EXCEPT !.res = IF Writable(k.res)
                              THEN End(Write(k.res, BufferSlice(buffer, 0, chunksize)))
                              ELSE k.res,
                      !.destroyed = TRUE]
      ELSE k1

\* 'end' of the small initial branch, lines 559-567
SmallEnd(k, chunksize) ==
  IF ~k.res.destroyed /\ ~k.res.headersSent
  THEN LET dataToSend == BufferSlice(k.buffer, 0, MathMin(Len(k.buffer), chunksize))
       IN  [k EXCEPT !.res = End(IF Len(dataToSend) > 0 THEN Write(k.res, dataToSend) ELSE k.res)]
  ELSE k

\* 'data' of the chunk-skipping branch, lines 585-629
SkipData(k, chunk, start, end) ==
  LET chunkStart == k.bytesRead
      chunkEnd == k.bytesRead + Len(chunk) - 1
      skipChunks == start \div CHUNK_SIZE
      sendStart == SendStart(start, chunkStart)
      sendEnd == SendEnd(Len(chunk), end, chunkStart)
      chunkToSend == BufferSlice(chunk, sendStart, sendEnd)
      sends == sendStart < sendEnd /\ Writable(k.res) /\ Len(chunkToSend) > 0
      sent == IF sends THEN Write(k.res, chunkToSend) ELSE k.res
      bytesRead == k.bytesRead + Len(chunk)
      stops == chunkEnd >= end \/ bytesRead > end
  IN  IF k.chunksSkipped < skipChunks /\ chunkEnd < start
      THEN [k EXCEPT !.bytesRead = bytesRead, !.chunksSkipped = @ + 1]
      ELSE IF chunkEnd < start
      THEN [k EXCEPT !.bytesRead = bytesRead]
      ELSE IF chunkStart > end
      THEN [k EXCEPT !.destroyed = TRUE]
      ELSE [k EXCEPT !.startedSending = @ \/ sends,
                     !.bytesRead = bytesRead,
                     !.destroyed = stops,
                     !.res = IF stops /\ ~sent.destroyed THEN End(sent) ELSE sent]

\* 'end' of the chunk-skipping branch, lines 631-637
SkipEnd(k) ==
  IF ~k.res.destroyed /\ ~k.res.headersSent THEN [k EXCEPT !.res = End(@)]
  ELSE IF ~k.res.destroyed /\ k.startedSending THEN [k EXCEPT !.res = End(@)]
  ELSE k

\* the download stream of the native variant over a store cut into parts:
\* one 'data' per chunk document from the one holding pos, trimmed to the range
NativePieceEnd(parts, pos, stop) ==
  LET i == CHOOSE j \in 1..Len(parts) : SumTo(parts, j - 1) <= pos /\ pos < SumTo(parts, j)
  IN  MathMin(SumTo(parts, i), stop)
NativePiece(b, parts, pos, stop) == SubSeq(b, pos + 1, NativePieceEnd(parts, pos, stop))

\* a satisfiable range of an object, the way the store cut it, and both
\* handlers with their stream just returned by getFileStream
CmpStart(L, parts, start, end) ==
  [state |-> "run", length |-> L, blob |-> Blob(L), parts |-> parts,
   start |-> start, end |-> end,
   skip |-> NoSkip,
   native |-> [stream |-> OpenDownloadStream(StreamOptions(Num(start), {Num(end)})),
               res |-> RangeResponse]]

\* the next event of getFileStream(fileId) in the chunk-skipping variant: 'data'
\* for the next chunk document, 'end' after the last; a destroyed stream emits
\* neither
CmpStream ==
  /\ cmp.state = "run"
  /\ ~cmp.skip.destroyed /\ ~cmp.skip.streamEnded
  /\ LET k == cmp.skip
         chunksize == (cmp.end - cmp.start) + 1
     IN  IF k.delivered < Len(cmp.parts)
         THEN LET chunk == ChunkAt(cmp.blob, cmp.parts, k.delivered + 1)
                  k1 == [k EXCEPT !.delivered = @ + 1]
              IN  cmp' = [cmp EXCEPT !.skip =
                            IF SmallInitial(cmp.start, cmp.end)
                            THEN SmallData(k1, chunk, chunksize)
                            ELSE SkipData(k1, chunk, cmp.start, cmp.end)]
         ELSE LET k1 == [k EXCEPT !.streamEnded = TRUE]
              IN  cmp' = [cmp EXCEPT !.skip =
                            IF SmallInitial(cmp.start, cmp.end)
                            THEN SmallEnd(k1, chunksize)
                            ELSE SkipEnd(k1)]
  /\ UNCHANGED <<fileVars, flow, client, caller, likes, toggler, subs, payer, playlist, gate>>

\* the next event of getFileStream(fileId, start, end) piped into the response
\* in the native variant
CmpNative ==
  /\ cmp.state = "run"
  /\ cmp.native.stream.state = "open"
  /\ LET s == cmp.native.stream
         stop == StreamStop(s, [length |-> cmp.length])
     IN  IF s.pos < stop
         THEN cmp' = [cmp EXCEPT
                        !.native.stream.pos = NativePieceEnd(cmp.parts, s.pos, stop),
                        !.native.res = Write(@, NativePiece(cmp.blob, cmp.parts, s.pos, stop))]
         ELSE cmp' = [cmp EXCEPT !.native.stream.state = "ended", !.native.res = End(@)]
  /\ UNCHANGED <<fileVars, flow, client, caller, likes, toggler, subs, payer, playlist, gate>>

InitCmp ==
  /\ FilesOff
  /\ \E L \in 1..MaxLen : \E parts \in Compositions(L) :
       \E start \in 0..(L - 1) : \E end \in start..(L - 1) :
         cmp = CmpStart(L, parts, start, end)
  /\ flow = Off
  /\ client = Off /\ caller = Off
  /\ likes = Off /\ toggler = Off
  /\ subs = Off /\ payer = Off
  /\ playlist = Off /\ gate = Off

NextCmp == CmpStream \/ CmpNative

SpecCmp == InitCmp /\ [][NextCmp]_vars

SkipFinished == cmp.state = "run" /\ (cmp.skip.destroyed \/ cmp.skip.streamEnded)
NativeFinished == cmp.state = "run" /\ cmp.native.stream.state = "ended"

\* C24: for every satisfiable range and every way the object is cut into
\* chunks, once both streams are through, the chunk-skipping handler and the
\* native start/end handler have ended their responses with the same bytes,
\* end-start+1 of them.
C24_SameBytes ==
  (SkipFinished /\ NativeFinished) =>
    /\ cmp.skip.res.ended /\ cmp.native.res.ended
    /\ cmp.skip.res.body = cmp.native.res.body
    /\ Len(cmp.skip.res.body) = cmp.end - cmp.start + 1
    /\ Len(cmp.native.res.body) = cmp.end - cmp.start + 1

\* a range starting inside one chunk and ending inside a later one, served by
\* both handlers
C24_Witness ==
  /\ SkipFinished /\ NativeFinished
  /\ cmp.parts = <<2, 2>> /\ cmp.start = 1 /\ cmp.end = 2
  /\ cmp.skip.res.body = <<cmp.blob[2], cmp.blob[3]>>

\* ------------------------------------------------- announced lengths
\* C25: a GET response the server has ended after a 200 or 206 status carries
\* exactly as many body bytes as its Content-Length header announced.
C25_LengthAsAnnounced ==
  \A r \in Reqs :
    (req[r].method = "GET" /\ res[r].ended /\ res[r].statusCode \in {200, 206}) =>
      Header(r, "contentLength") = {Num(Len(res[r].body))}

\* --------------------------------------------------- config/database.js
\* the import's own connectDB() and the callers of connectDB and getDB
DbCallers == {"import", "a", "b", "c"}
DbFunctions == {"connectDB", "getDB"}

\* let client; let db; with the connection state of the client object
NoClient == [state |-> "run", made |-> FALSE, connection |-> "none", db |-> FALSE]

NoCall == [pc |-> "idle", fn |-> "", handed |-> "none"]

\* return db: the caller holds the handle; handed records the state the
\* handle's client was in at that moment
ReturnDb(c, fn) ==
  caller' = [caller EXCEPT ![c] = [pc |-> "returned", fn |-> fn, handed |-> client.connection]]

\* if (!db) db = client.db(DB_NAME)
SetDb == client' = [client EXCEPT !.db = TRUE]

\* connectDB up to its first await, or to its return when client is set
ConnectDBEnter(c, fn) ==
  IF ~client.made
  THEN /\ client' = [client EXCEPT !.made = TRUE, !.connection = "connecting"]
       /\ caller' = [caller EXCEPT ![c] = [pc |-> "awaiting", fn |-> fn, handed |-> "none"]]
  ELSE /\ SetDb
       /\ ReturnDb(c, fn)

\* a call of connectDB() or getDB(); getDB returns db when it is set and
\* calls connectDB otherwise
DbCall(c) ==
  /\ client.state = "run" /\ caller[c].pc = "idle"
  /\ UNCHANGED <<fileVars, flow, cmp, likes, toggler, subs, payer, playlist, gate>>
  /\ \E fn \in DbFunctions :
       IF fn = "getDB" /\ client.db
       THEN /\ ReturnDb(c, fn)
            /\ UNCHANGED client
       ELSE ConnectDBEnter(c, fn)

\* client.connect() resolves
ConnectOk ==
  /\ client.state = "run" /\ client.connection = "connecting"
  /\ client' = [client EXCEPT !.connection = "connected"]
  /\ UNCHANGED <<fileVars, flow, cmp, caller, likes, toggler, subs, payer, playlist, gate>>

\* client.connect() rejects; nothing resets client
ConnectFail ==
  /\ client.state = "run" /\ client.connection = "connecting"
  /\ client' = [client EXCEPT !.connection = "failed"]
  /\ UNCHANGED <<fileVars, flow, cmp, caller, likes, toggler, subs, payer, playlist, gate>>

\* connectDB after await client.connect(): the rest of the try block, or the
\* catch block, which throws
DbResume(c) ==
  /\ client.state = "run" /\ caller[c].pc = "awaiting"
  /\ client.connection \in {"connected", "failed"}
  /\ IF client.connection = "connected"
     THEN /\ SetDb
          /\ ReturnDb(c, caller[c].fn)
     ELSE /\ caller' = [caller EXCEPT ![c].pc = "thrown"]
          /\ UNCHANGED client
  /\ UNCHANGED <<fileVars, flow, cmp, likes, toggler, subs, payer, playlist, gate>>

\* the module has been imported: its connectDB() has run to the await
InitDb ==
  /\ FilesOff
  /\ client = [NoClient EXCEPT !.made = TRUE, !.connection = "connecting"]
  /\ caller = [c \in DbCallers |->
                 IF c = "import" THEN [NoCall EXCEPT !.pc = "awaiting", !.fn = "connectDB"]
                 ELSE NoCall]
  /\ flow = Off /\ cmp = Off
  /\ likes = Off /\ toggler = Off
  /\ subs = Off /\ payer = Off
  /\ playlist = Off /\ gate = Off

NextDb ==
  \/ \E c \in DbCallers : DbCall(c) \/ DbResume(c)
  \/ ConnectOk
  \/ ConnectFail

SpecDb == InitDb /\ [][NextDb]_vars

\* C26: a caller of connectDB or getDB holds the database handle only of a
\* client whose connect() has completed: never of one still connecting, never
\* of one whose connect() failed.
C26_HandleOnlyWhenConnected ==
  client.state = "run" =>
    \A c \in DbCallers : caller[c].pc = "returned" => caller[c].handed = "connected"

\* ------------------------------------------------ likes and dislikes
\* requests of one user on one content item
Togglers == {"t1", "t2"}
Reactions == {"likes", "dislikes"}

Other(kind) == IF kind = "likes" THEN "dislikes" ELSE "likes"

\* the documents of the user on the item, counted per collection
Reacted(l, d) == [state |-> "run", likes |-> l, dislikes |-> d]

NoToggle == [pc |-> "idle", kind |-> "", existing |-> FALSE]

\* collection.deleteOne(filter): one matching document less, if there is one
DeleteOne(n) == IF n > 0 THEN n - 1 ELSE 0

\* collection.insertOne(doc): no index of likes or dislikes is unique
InsertOne(n) == n + 1

\* POST /:contentType/:contentId/likes or /dislikes, up to the findOne
ToggleStart(t) ==
  /\ likes.state = "run" /\ toggler[t].pc = "idle"
  /\ \E kind \in Reactions : toggler' = [toggler EXCEPT ![t] = [NoToggle EXCEPT !.pc = "finding", !.kind = kind]]
  /\ UNCHANGED <<fileVars, flow, cmp, client, caller, likes, subs, payer, playlist, gate>>

\* const existing = await db.collection(kind).findOne(...)
ToggleFind(t) ==
  /\ likes.state = "run" /\ toggler[t].pc = "finding"
  /\ toggler' = [toggler EXCEPT ![t].pc = "clearing",
                                ![t].existing = likes[toggler[t].kind] > 0]
  /\ UNCHANGED <<fileVars, flow, cmp, client, caller, likes, subs, payer, playlist, gate>>

\* await db.collection(other).deleteOne(...)
ToggleClear(t) ==
  /\ likes.state = "run" /\ toggler[t].pc = "clearing"
  /\ likes' = [likes EXCEPT ![Other(toggler[t].kind)] = DeleteOne(@)]
  /\ toggler' = [toggler EXCEPT ![t].pc = "applying"]
  /\ UNCHANGED <<fileVars, flow, cmp, client, caller, subs, payer, playlist, gate>>

\* if (existing) deleteOne of the own collection, else insertOne; res.json
ToggleApply(t) ==
  /\ likes.state = "run" /\ toggler[t].pc = "applying"
  /\ likes' = [likes EXCEPT ![toggler[t].kind] =
                 IF toggler[t].existing THEN DeleteOne(@) ELSE InsertOne(@)]
  /\ toggler' = [toggler EXCEPT ![t].pc = "done"]
  /\ UNCHANGED <<fileVars, flow, cmp, client, caller, subs, payer, playlist, gate>>

\* the user has no reaction, a like, or a dislike on the item
InitLikes ==
  /\ FilesOff
  /\ likes \in {Reacted(0, 0), Reacted(1, 0), Reacted(0, 1)}
  /\ toggler = [t \in Togglers |-> NoToggle]
  /\ flow = Off /\ cmp = Off
  /\ client = Off /\ caller = Off
  /\ subs = Off /\ payer = Off
  /\ playlist = Off /\ gate = Off

NextLikes ==
  \E t \in Togglers : ToggleStart(t) \/ ToggleFind(t) \/ ToggleClear(t) \/ ToggleApply(t)

SpecLikes == InitLikes /\ [][NextLikes]_vars

\* no toggle request is between its find and its last write
TogglesSettled == \A t \in Togglers : toggler[t].pc \in {"idle", "done"}

\* C27: when the toggle requests of a user on an item are through, the user
\* holds at most one like and at most one dislike document on the item, and
\* not both a like and a dislike.
C27_OneReaction ==
  (likes.state = "run" /\ TogglesSettled) =>
    /\ likes.likes <= 1 /\ likes.dislikes <= 1
    /\ ~(likes.likes > 0 /\ likes.dislikes > 0)

\* ------------------------------------------------------ payments.js
\* concurrent payment requests of one user
Payers == {"p1", "p2"}
PayMethods == {"stripe", "mpesa"}

\* plan.duration_days of the plans on offer, in the model's unit of time
PlanDays == {1, 2}

\* new Date(): the requests run within one instant
Now == 0

\* user_subscriptions of the user: the end_date of each document, all of
\* status 'active'; payments: the plan duration of each completed payment;
\* base: the end date the extensions count from
Subscribed(docs) ==
  [state |-> "run", docs |-> docs, payments |-> <<>>,
   base |-> IF docs = <<>> THEN Now ELSE docs[1]]

NoPayment == [pc |-> "idle", method |-> "", days |-> 0, existing |-> 0, seenEnd |-> 0]

\* findOne({user_id, status: 'active', end_date: {$gt: new Date()}},
\* {sort: {end_date: -1}}): the index of the document found, 0 for null
FindActive(docs) ==
  LET live == {i \in 1..Len(docs) : docs[i] > Now}
  IN  IF live = {} THEN 0
      ELSE CHOOSE i \in live : \A j \in live : docs[j] < docs[i] \/ (docs[j] = docs[i] /\ i <= j)

\* the latest end date among the user's active unexpired documents
LatestEnd(docs) == IF FindActive(docs) = 0 THEN Now ELSE docs[FindActive(docs)]

\* POST /stripe/create-intent or /mpesa/initiate up to the lookup of the
\* subscription: the plan is found
PayStart(p) ==
  /\ subs.state = "run" /\ payer[p].pc = "idle"
  /\ \E m \in PayMethods, d \in PlanDays :
       payer' = [payer EXCEPT ![p] = [NoPayment EXCEPT !.pc = "finding", !.method = m, !.days = d]]
  /\ UNCHANGED <<fileVars, flow, cmp, client, caller, likes, toggler, subs, playlist, gate>>

\* const existingSub = await findOne(...)
PayFind(p) ==
  /\ subs.state = "run" /\ payer[p].pc = "finding"
  /\ payer' = [payer EXCEPT ![p].pc = "writing",
                            ![p].existing = FindActive(subs.docs),
                            ![p].seenEnd = LatestEnd(subs.docs)]
  /\ UNCHANGED <<fileVars, flow, cmp, client, caller, likes, toggler, subs, playlist, gate>>

\* if (existingSub) updateOne $set end_date = existingSub.end_date + days,
\* else insertOne with end_date = now + days
PayWrite(p) ==
  /\ subs.state = "run" /\ payer[p].pc = "writing"
  /\ subs' = IF payer[p].existing # 0
             THEN [subs EXCEPT !.docs[payer[p].existing] = payer[p].seenEnd + payer[p].days]
             ELSE [subs EXCEPT !.docs = Append(@, Now + payer[p].days)]
  /\ payer' = [payer EXCEPT ![p].pc = "recording"]
  /\ UNCHANGED <<fileVars, flow, cmp, client, caller, likes, toggler, playlist, gate>>

\* payments.insertOne({... payment_status: 'completed'}); res.json
PayRecord(p) ==
  /\ subs.state = "run" /\ payer[p].pc = "recording"
  /\ subs' = [subs EXCEPT !.payments = Append(@, payer[p].days)]
  /\ payer' = [payer EXCEPT ![p].pc = "done"]
  /\ UNCHANGED <<fileVars, flow, cmp, client, caller, likes, toggler, playlist, gate>>

\* the user has no subscription or an active unexpired one
InitPay ==
  /\ FilesOff
  /\ subs \in {Subscribed(<<>>), Subscribed(<<1>>)}
  /\ payer = [p \in Payers |-> NoPayment]
  /\ flow = Off /\ cmp = Off
  /\ client = Off /\ caller = Off
  /\ likes = Off /\ toggler = Off
  /\ playlist = Off /\ gate = Off

NextPay == \E p \in Payers : PayStart(p) \/ PayFind(p) \/ PayWrite(p) \/ PayRecord(p)

SpecPay == InitPay /\ [][NextPay]_vars

PaymentsSettled == \A p \in Payers : payer[p].pc \in {"idle", "done"}

\* C28: when the payment requests of a user are through, the user's
\* subscription end date has advanced by the plan durations of all completed
\* payments together, and the user has at most one active unexpired
\* subscription document.
C28_EveryPaymentExtends ==
  (subs.state = "run" /\ PaymentsSettled) =>
    /\ LatestEnd(subs.docs) = subs.base + SumTo(subs.payments, Len(subs.payments))
    /\ Cardinality({i \in 1..Len(subs.docs) : subs.docs[i] > Now}) <= 1

\* ------------------------------------------------- playlist songs
Songs == {"s1", "s2", "s3"}

\* req.body.songIds: not an array, or an array of song ids
SongLists == UNION {[1..n -> Songs] : n \in 0..Cardinality(Songs)}
NotArray == [array |-> FALSE, ids |-> <<>>]
SongIdsBodies == {NotArray} \cup {[array |-> TRUE, ids |-> l] : l \in SongLists}

\* currentSongIds.includes(id)
Includes(list, id) == \E i \in 1..Len(list) : list[i] = id

\* the user's playlist document, if there is one, and the last request on it:
\* the songs before it and the status answered
Playlist(exists) ==
  [state |-> "run", exists |-> exists, songs |-> <<>>,
   op |-> "none", before |-> <<>>, status |-> 0]

Answer(pl, op, status, songs) ==
  [pl EXCEPT !.op = op, !.before = pl.songs, !.status = status, !.songs = songs]

\* POST /:id/songs for an existing song: 404 without the playlist, 400 when
\* the song is in it already, else $push
AddSong ==
  /\ playlist.state = "run"
  /\ \E song \in Songs :
       playlist' =
         IF ~playlist.exists THEN Answer(playlist, "add", 404, playlist.songs)
         ELSE IF Includes(playlist.songs, song) THEN Answer(playlist, "add", 400, playlist.songs)
         ELSE Answer(playlist, "add", 200, Append(playlist.songs, song))
  /\ UNCHANGED <<fileVars, flow, cmp, client, caller, likes, toggler, subs, payer, gate>>

\* newSongIds.every(id => currentSongIds.includes(id))
AllExist(newSongIds, currentSongIds) ==
  \A i \in 1..Len(newSongIds) : Includes(currentSongIds, newSongIds[i])

\* newSongIds.length === currentSongIds.length
SameCount(newSongIds, currentSongIds) == Len(newSongIds) = Len(currentSongIds)

\* PUT /:id/songs/reorder
Reorder ==
  /\ playlist.state = "run"
  /\ \E songIds \in SongIdsBodies :
       playlist' =
         IF ~songIds.array THEN Answer(playlist, "reorder", 400, playlist.songs)
         ELSE IF ~playlist.exists THEN Answer(playlist, "reorder", 404, playlist.songs)
         ELSE IF ~AllExist(songIds.ids, playlist.songs) \/ ~SameCount(songIds.ids, playlist.songs)
         THEN Answer(playlist, "reorder", 400, playlist.songs)
         ELSE Answer(playlist, "reorder", 200, songIds.ids)
  /\ UNCHANGED <<fileVars, flow, cmp, client, caller, likes, toggler, subs, payer, gate>>

InitPlaylist ==
  /\ FilesOff
  /\ playlist \in {Playlist(TRUE), Playlist(FALSE)}
  /\ flow = Off /\ cmp = Off
  /\ client = Off /\ caller = Off
  /\ likes = Off /\ toggler = Off
  /\ subs = Off /\ payer = Off
  /\ gate = Off

NextPlaylist == AddSong \/ Reorder

SpecPlaylist == InitPlaylist /\ [][NextPlaylist]_vars

\* how often a song is in a list
Times(list, song) == Cardinality({i \in 1..Len(list) : list[i] = song})

\* C29: a reorder that succeeds leaves the same songs with the same
\* multiplicities in the playlist, and one that is rejected leaves the
\* playlist as it was.
C29_ReorderPermutes ==
  (playlist.state = "run" /\ playlist.op = "reorder") =>
    /\ playlist.status = 200 =>
         \A song \in Songs : Times(playlist.songs, song) = Times(playlist.before, song)
    /\ playlist.status \in {400, 404} => playlist.songs = playlist.before

\* ------------------------------------------------ middleware/auth.js
\* the latest instant of the clock
MaxTime == 2

Tokens == {"none", "invalid", "valid"}
\* users.findOne for the token's userId: no user, or the user's role
Roles == {"missing", "user", "admin"}
SubStatuses == {"active", "cancelled"}

\* a user's user_subscriptions documents
SubDocs == [status : SubStatuses, end : 0..MaxTime]
SubDocSets == {ds \in SUBSET SubDocs : Cardinality(ds) <= 2}

\* a query matching on end_date alone
ActiveSubscriptionAnyStatus(docs, now) == {d \in docs : d.end > now}

\* findOne({user_id, status: 'active', end_date: {$gt: new Date()}}): the
\* documents the query matches
ActiveSubscription(docs, now) == {d \in docs : d.status = "active" /\ d.end > now}

\* before a request: the clock, the user's subscriptions; pc is the place of
\* the request in the middleware chain, status the response sent (0: none),
\* ran whether the protected handler was called
Gate(docs) ==
  [state |-> "run", now |-> 0, docs |-> docs, pc |-> "idle", token |-> "none",
   role |-> "missing", reqUser |-> FALSE, checkedAt |-> 0, status |-> 0, ran |-> FALSE]

Reply(g, code) == [g EXCEPT !.pc = "done", !.status = code]

\* next() of the last middleware: the protected handler runs
RunHandler(g) == [g EXCEPT !.pc = "done", !.ran = TRUE]

\* authenticate up to its first await: the token is read and verified
GateRequest ==
  /\ gate.state = "run" /\ gate.pc = "idle"
  /\ \E t \in Tokens, role \in Roles :
       LET g == [gate EXCEPT !.token = t, !.role = role]
       IN  gate' = IF t = "none" THEN Reply(g, 401)
                   ELSE IF t = "invalid" THEN Reply(g, 401)
                   ELSE [g EXCEPT !.pc = "findingUser"]
  /\ UNCHANGED <<fileVars, flow, cmp, client, caller, likes, toggler, subs, payer, playlist>>

\* authenticate after users.findOne: 401 without the user or when the lookup
\* throws; else req.user is set and next() enters requireSubscription, which
\* lets an admin through and awaits getDB() for anyone else
AuthFindUser ==
  /\ gate.state = "run" /\ gate.pc = "findingUser"
  /\ \E dbOk \in BOOLEAN :
       gate' = IF ~dbOk THEN Reply(gate, 401)
               ELSE IF gate.role = "missing" THEN Reply(gate, 401)
               ELSE LET g == [gate EXCEPT !.reqUser = TRUE]
                    IN  IF g.role = "admin" THEN RunHandler(g)
                        ELSE [g EXCEPT !.pc = "findingSubscription"]
  /\ UNCHANGED <<fileVars, flow, cmp, client, caller, likes, toggler, subs, payer, playlist>>

\* requireSubscription: the findOne with end_date > new Date(); 403 when
\* nothing matches, 500 when getDB or the lookup throws
GateFindSubscription ==
  /\ gate.state = "run" /\ gate.pc = "findingSubscription"
  /\ \E dbOk \in BOOLEAN :
       gate' = IF ~dbOk THEN Reply(gate, 500)
               ELSE LET g == [gate EXCEPT !.checkedAt = gate.now]
                    IN  IF ActiveSubscription(gate.docs, gate.now) = {} THEN Reply(g, 403)
                        ELSE [g EXCEPT !.pc = "findingPlan"]
  /\ UNCHANGED <<fileVars, flow, cmp, client, caller, likes, toggler, subs, payer, playlist>>

\* requireSubscription after subscription_plans.findOne: req.subscription is
\* set and next() called, whether or not the plan was found; 500 when the
\* lookup throws
GateFindPlan ==
  /\ gate.state = "run" /\ gate.pc = "findingPlan"
  /\ \E dbOk \in BOOLEAN :
       gate' = IF ~dbOk THEN Reply(gate, 500) ELSE RunHandler(gate)
  /\ UNCHANGED <<fileVars, flow, cmp, client, caller, likes, toggler, subs, payer, playlist>>

\* time passes
Tick ==
  /\ gate.state = "run" /\ gate.now < MaxTime
  /\ gate' = [gate EXCEPT !.now = @ + 1]
  /\ UNCHANGED <<fileVars, flow, cmp, client, caller, likes, toggler, subs, payer, playlist>>

InitGate ==
  /\ FilesOff
  /\ \E docs \in SubDocSets : gate = Gate(docs)
  /\ flow = Off /\ cmp = Off
  /\ client = Off /\ caller = Off
  /\ likes = Off /\ toggler = Off
  /\ subs = Off /\ payer = Off
  /\ playlist = Off

NextGate == GateRequest \/ AuthFindUser \/ GateFindSubscription \/ GateFindPlan \/ Tick

SpecGate == InitGate /\ [][NextGate]_vars

\* C30: the protected handler runs only for an admin or for a user with a
\* subscription of status 'active' ending after the time of the check; a
\* request that reached the gate and was not let through was answered 403
\* or 500, and no answered request ran the handler.
C30_GateAdmitsSubscribers ==
  gate.state = "run" =>
    /\ gate.ran =>
         \/ gate.role = "admin"
         \/ \E d \in gate.docs : d.status = "active" /\ d.end > gate.checkedAt
    /\ (gate.pc = "done" /\ gate.reqUser /\ ~gate.ran) => gate.status \in {403, 500}
    /\ gate.status # 0 => ~gate.ran

\* a subscriber was let through after time had passed, with a cancelled
\* subscription next to the active one
C30_Witness ==
  /\ gate.state = "run" /\ gate.ran /\ gate.role = "user"
  /\ gate.checkedAt > 0
  /\ \E d \in gate.docs : d.status = "cancelled"

====
